---- MODULE Spec2Model ----
(***************************************************************************)
(* Patch engine of docx_mcp_server (src/patch_json.py): apply_patch and    *)
(* the operations it dispatches to, over JSON document trees.              *)
(*                                                                         *)
(* JSON values are tagged records [k, v]:                                  *)
(*   null  : v = ""            str  : v = a string                         *)
(*   list  : v = a sequence    dict : v = a sequence of [key, val] pairs   *)
(* in insertion order, as Python dicts iterate.  List indices are the      *)
(* 0-based indices of the Python code.                                     *)
(***************************************************************************)
EXTENDS Integers, Sequences, FiniteSets, TLC

\* one call of apply_patch
VARIABLES heap, data, patched_data, patch, existing_ids, id_counters, opi, pc

\* one run of build_docx_json
VARIABLES docx, data_body, key_to_props, name_to_key, registry, annotated, final_body, epc

VARIABLES files, calls, made, request

pvars == <<heap, data, patched_data, patch, existing_ids, id_counters, opi, pc>>

evars == <<docx, data_body, key_to_props, name_to_key, registry, annotated, final_body, epc>>

\* the server: the files of the directory, each caller's call in progress
\* and the calls each caller has made
svars == <<files, calls, made, request>>

vars == <<pvars, evars, svars>>

(* ---------------------------- JSON values ------------------------------ *)

None == [k |-> "null", v |-> ""]

Str(s) == [k |-> "str", v |-> s]

List(q) == [k |-> "list", v |-> q]

Dict(q) == [k |-> "dict", v |-> q]

KV(key, val) == [key |-> key, val |-> val]

isdict(x) == x.k = "dict"

islist(x) == x.k = "list"

isstr(x) == x.k = "str"

\* Python truthiness: None, "", [] and {}, False, 0 and 0.0 are false
truthy(x) == IF x.k = "null" THEN FALSE
             ELSE IF x.k = "str" THEN x.v # ""
             ELSE IF x.k = "bool" THEN x.v
             ELSE IF x.k \in {"int", "float"} THEN x.v # 0
             ELSE Len(x.v) > 0

Min(S) == CHOOSE m \in S : \A n \in S : m <= n

\* key in d
has(d, key) == \E j \in 1..Len(d.v) : d.v[j].key = key

\* d.get(key)
get(d, key) == IF has(d, key)
               THEN d.v[CHOOSE j \in 1..Len(d.v) : d.v[j].key = key].val
               ELSE None

\* d[key] = val : an existing key keeps its position, a new key goes last
set(d, key, val) ==
    IF has(d, key)
    THEN Dict([j \in 1..Len(d.v) |-> IF d.v[j].key = key THEN KV(key, val) ELSE d.v[j]])
    ELSE Dict(Append(d.v, KV(key, val)))

\* s.startswith(p)
startswith(s, p) == Len(s) >= Len(p) /\ SubSeq(s, 1, Len(p)) = p

\* s.split(sep) for a one-character separator
RECURSIVE split(_, _)
split(s, sep) ==
    LET at == {j \in 1..Len(s) : SubSeq(s, j, j) = sep}
    IN  IF at = {} THEN <<s>>
        ELSE <<SubSeq(s, 1, Min(at) - 1)>> \o split(SubSeq(s, Min(at) + 1, Len(s)), sep)

\* l.insert(pos, x) : a position past the end appends
ListInsert(q, pos, x) ==
    LET p == IF pos > Len(q) THEN Len(q) ELSE pos
    IN  SubSeq(q, 1, p) \o <<x>> \o SubSeq(q, p + 1, Len(q))

\* del l[index + 1]
ListDel_next(q, index) == SubSeq(q, 1, index + 1) \o SubSeq(q, index + 3, Len(q))

\* del l[index]
ListDel(q, index) == SubSeq(q, 1, index) \o SubSeq(q, index + 2, Len(q))

(* A reference into a tree is the path from its root: a sequence of steps, *)
(* each a dict key or a list index.  Mutating an object through a          *)
(* reference is PutAt on the tree that holds it.                           *)
KeyStep(key) == [t |-> "key", key |-> key, n |-> 0]

IdxStep(n) == [t |-> "idx", key |-> "", n |-> n]

RECURSIVE GetAt(_, _)
GetAt(x, path) ==
    IF path = <<>> THEN x
    ELSE IF Head(path).t = "key" THEN GetAt(get(x, Head(path).key), Tail(path))
    ELSE GetAt(x.v[Head(path).n + 1], Tail(path))

RECURSIVE PutAt(_, _, _)
PutAt(x, path, y) ==
    IF path = <<>> THEN y
    ELSE IF Head(path).t = "key"
         THEN set(x, Head(path).key, PutAt(get(x, Head(path).key), Tail(path), y))
         ELSE List([x.v EXCEPT ![Head(path).n + 1] = PutAt(@, Tail(path), y)])

(* ---------------------------- _collect_ids ----------------------------- *)

RECURSIVE _collect_ids(_)
_collect_ids(x) ==
    IF isdict(x)
    THEN (IF isstr(get(x, "id")) /\ truthy(get(x, "id")) THEN {get(x, "id").v} ELSE {})
         \cup UNION {_collect_ids(x.v[j].val) : j \in 1..Len(x.v)}
    ELSE IF islist(x)
    THEN UNION {_collect_ids(x.v[j]) : j \in 1..Len(x.v)}
    ELSE {}

(* ----------------------- _sanitize_and_assign_id ----------------------- *)

\* id_counters.get(prefix, 1)
counter_get(c, prefix) == IF prefix \in DOMAIN c THEN c[prefix] ELSE 1

\* id_counters[prefix] = n
counter_set(c, prefix, n) ==
    [p \in DOMAIN c \cup {prefix} |-> IF p = prefix THEN n ELSE c[p]]

\* the loop leaving at once, with the counter's own idx
first_free_unchecked(prefix, idx, ids) == idx

\* the while True loop: the first idx, counting up, whose candidate is free
RECURSIVE first_free(_, _, _)
first_free(prefix, idx, ids) ==
    IF (prefix \o ToString(idx)) \notin ids THEN idx
    ELSE first_free(prefix, idx + 1, ids)

\* preferred_prefix without the type tag
preferred_prefix_untyped(node) == "i-"

preferred_prefix(node) ==
    IF get(node, "type") = Str("paragraph") THEN "i-p-"
    ELSE IF get(node, "type") = Str("table") THEN "i-t-"
    ELSE "i-"

\* kept_candidate without the test "candidate in existing_ids"
kept_candidate_unchecked(node, ids) ==
    LET given == get(node, "id")
    IN  IF isstr(given) /\ truthy(given)
           /\ ~(startswith(given.v, "p-") \/ startswith(given.v, "t-"))
        THEN given.v ELSE ""

\* the id string the node keeps, "" when a fresh one has to be generated
kept_candidate(node, ids) ==
    LET given == get(node, "id")
        provided == IF isstr(given) /\ truthy(given)
                       /\ (startswith(given.v, "p-") \/ startswith(given.v, "t-"))
                    THEN None ELSE given
        candidate == IF isstr(provided) /\ truthy(provided) THEN provided.v ELSE ""
    IN  IF candidate = "" \/ candidate \in ids THEN "" ELSE candidate

_sanitize_and_assign_id(dst_node, ids, counters) ==
    IF ~isdict(dst_node) THEN [node |-> dst_node, ids |-> ids, counters |-> counters]
    ELSE LET prefix == preferred_prefix(dst_node)
             keep == kept_candidate(dst_node, ids)
             idx == first_free(prefix, counter_get(counters, prefix), ids)
             candidate == IF keep = "" THEN prefix \o ToString(idx) ELSE keep
         IN  [node |-> set(dst_node, "id", Str(candidate)),
              ids |-> ids \cup {candidate},
              counters |-> IF keep = "" THEN counter_set(counters, prefix, idx + 1)
                           ELSE counters]

(* -------------------- _ensure_paragraph_formatting --------------------- *)

\* node.get("content", []) or []  as a sequence of items
items_of(node, key) ==
    LET c == IF has(node, key) THEN get(node, key) ELSE List(<<>>)
    IN  IF islist(c) THEN c.v ELSE <<>>

_first_run_rpr(node) ==
    IF ~isdict(node) THEN None
    ELSE LET c == items_of(node, "content")
             ok == {j \in 1..Len(c) : /\ isdict(c[j])
                                      /\ get(c[j], "type") = Str("run")
                                      /\ truthy(get(c[j], "rPr"))}
         IN  IF ok = {} THEN None ELSE get(c[Min(ok)], "rPr")

\* _ensure_paragraph_formatting without the tests "not dst_node.get("pPr")"
\* and "not it.get("rPr")": the source's formatting replaces the node's own
_ensure_paragraph_formatting_overwrite(dst_node, src_node) ==
    IF ~isdict(dst_node) \/ ~isdict(src_node) THEN [node |-> dst_node, changed |-> FALSE]
    ELSE IF get(dst_node, "type") # Str("paragraph") \/ get(src_node, "type") # Str("paragraph")
    THEN [node |-> dst_node, changed |-> FALSE]
    ELSE LET fillP == truthy(get(src_node, "pPr"))
             n1 == IF fillP THEN set(dst_node, "pPr", get(src_node, "pPr")) ELSE dst_node
             base_rpr == _first_run_rpr(src_node)
             c == items_of(n1, "content")
             fillR(j) == isdict(c[j]) /\ get(c[j], "type") = Str("run")
             anyR == truthy(base_rpr) /\ \E j \in 1..Len(c) : fillR(j)
             n2 == IF anyR
                   THEN set(n1, "content",
                            List([j \in 1..Len(c) |->
                                    IF fillR(j) THEN set(c[j], "rPr", base_rpr) ELSE c[j]]))
                   ELSE n1
         IN  [node |-> n2, changed |-> fillP \/ anyR]

_ensure_paragraph_formatting(dst_node, src_node) ==
    IF ~isdict(dst_node) \/ ~isdict(src_node) THEN [node |-> dst_node, changed |-> FALSE]
    ELSE IF get(dst_node, "type") # Str("paragraph") \/ get(src_node, "type") # Str("paragraph")
    THEN [node |-> dst_node, changed |-> FALSE]
    ELSE LET fillP == ~truthy(get(dst_node, "pPr")) /\ truthy(get(src_node, "pPr"))
             n1 == IF fillP THEN set(dst_node, "pPr", get(src_node, "pPr")) ELSE dst_node
             base_rpr == _first_run_rpr(src_node)
             c == items_of(n1, "content")
             fillR(j) == /\ isdict(c[j])
                         /\ get(c[j], "type") = Str("run")
                         /\ ~truthy(get(c[j], "rPr"))
             anyR == truthy(base_rpr) /\ \E j \in 1..Len(c) : fillR(j)
             n2 == IF anyR
                   THEN set(n1, "content",
                            List([j \in 1..Len(c) |->
                                    IF fillR(j) THEN set(c[j], "rPr", base_rpr) ELSE c[j]]))
                   ELSE n1
         IN  [node |-> n2, changed |-> fillP \/ anyR]

(* ----------------------- find_element_and_parent ----------------------- *)

\* the (None, None, None) result
NotFound == [ok |-> FALSE, found |-> None, at |-> <<>>,
             has_parent |-> FALSE, parent |-> <<>>, index |-> 0]

(* The result (found, parent_list, index).  found is the element and at    *)
(* the reference to it; parent_list is a reference (parent) to the list    *)
(* that holds it, or None (has_parent = FALSE).  ok is "if found:".        *)
RECURSIVE find_element_and_parent(_, _, _)
find_element_and_parent(x, element_id, path) ==
    IF isdict(x)
    THEN IF get(x, "id") = element_id
         THEN [ok |-> truthy(x), found |-> x, at |-> path,
               has_parent |-> FALSE, parent |-> <<>>, index |-> 0]
         ELSE LET sub(j) == find_element_and_parent(x.v[j].val, element_id,
                                                    Append(path, KeyStep(x.v[j].key)))
                  hits == {j \in 1..Len(x.v) : sub(j).ok}
              IN  IF hits = {} THEN NotFound ELSE sub(Min(hits))
    ELSE IF islist(x)
    THEN LET direct(j) == isdict(x.v[j]) /\ get(x.v[j], "id") = element_id
             sub(j) == IF direct(j)
                       THEN [ok |-> TRUE, found |-> x.v[j], at |-> Append(path, IdxStep(j - 1)),
                             has_parent |-> TRUE, parent |-> path, index |-> j - 1]
                       ELSE find_element_and_parent(x.v[j], element_id,
                                                    Append(path, IdxStep(j - 1)))
             hits == {j \in 1..Len(x.v) : sub(j).ok}
         IN  IF hits = {} THEN NotFound ELSE sub(Min(hits))
    ELSE NotFound

(* ------------------ _set_deep_property / replace ----------------------- *)

\* returns the success flag and the element as the code leaves it
RECURSIVE _set_deep_property(_, _, _)
_set_deep_property(current, path_keys, value) ==
    IF Len(path_keys) = 1
    THEN IF isdict(current)
         THEN [ok |-> TRUE, element |-> set(current, path_keys[1], value)]
         ELSE [ok |-> FALSE, element |-> current]
    ELSE IF ~isdict(current) THEN [ok |-> FALSE, element |-> current]
    ELSE LET key == Head(path_keys)
             next == IF ~has(current, key) \/ ~isdict(get(current, key))
                     THEN Dict(<<>>) ELSE get(current, key)
             r == _set_deep_property(next, Tail(path_keys), value)
         IN  [ok |-> r.ok, element |-> set(current, key, r.element)]

\* edit_element_content that skips only when path and value are both missing
edit_element_content_lax(element, path, value) ==
    IF path = None /\ value = None THEN [ok |-> FALSE, element |-> element]
    ELSE _set_deep_property(element, split(path.v, "."), value)

edit_element_content(element, path, value) ==
    IF path = None \/ value = None THEN [ok |-> FALSE, element |-> element]
    ELSE _set_deep_property(element, split(path.v, "."), value)

(* ------------------------------ delete --------------------------------- *)

\* delete_section taking the element out of whatever holds it: the key of a
\* dict when no parent list was found
delete_section_anywhere(tree, f) ==
    IF f.has_parent
    THEN PutAt(tree, f.parent, List(ListDel(GetAt(tree, f.parent).v, f.index)))
    ELSE IF f.at = <<>> THEN tree
    ELSE LET up == SubSeq(f.at, 1, Len(f.at) - 1)
             last == f.at[Len(f.at)]
         IN  PutAt(tree, up, Dict(SelectSeq(GetAt(tree, up).v, LAMBDA e : e.key # last.key)))

\* the tree after delete_section; unchanged when no parent list was found
delete_section(tree, f) ==
    IF f.has_parent
    THEN PutAt(tree, f.parent, List(ListDel(GetAt(tree, f.parent).v, f.index)))
    ELSE tree

(* ------------------------------ insert --------------------------------- *)

\* the state an insert works on: the tree, the known ids, the counters,
\* and whether an exception has been raised
InsState(tree, ids, counters, raised) ==
    [tree |-> tree, ids |-> ids, counters |-> counters, raised |-> raised]

\* one iteration of the loop of _insert_elements on nodes[j]
insert_one(st, f, raw_node, inserted_count, after) ==
    IF ~isdict(raw_node) THEN InsState(st.tree, st.ids, st.counters, TRUE)
    ELSE LET s == _sanitize_and_assign_id(raw_node, st.ids, st.counters)
             fmt_from_id == get(s.node, "formatFrom")
             cand == IF truthy(fmt_from_id)
                     THEN find_element_and_parent(st.tree, fmt_from_id, <<>>)
                     ELSE NotFound
             src_for_format == IF cand.ok THEN cand.found ELSE f.found
             node == _ensure_paragraph_formatting(s.node, src_for_format).node
             lst == GetAt(st.tree, f.parent).v
             pos == IF after THEN f.index + 1 + inserted_count ELSE f.index + inserted_count
         IN  InsState(PutAt(st.tree, f.parent, List(ListInsert(lst, pos, node))),
                      s.ids, s.counters, FALSE)

RECURSIVE insert_loop(_, _, _, _, _)
insert_loop(st, f, nodes, j, after) ==
    IF j > Len(nodes) \/ st.raised THEN st
    ELSE insert_loop(insert_one(st, f, nodes[j], j - 1, after), f, nodes, j + 1, after)

_insert_elements(st, f, nodes, after) ==
    IF ~islist(nodes) THEN st
    ELSE IF ~f.has_parent THEN st
    ELSE insert_loop(st, f, nodes.v, 1, after)

add_element_after(st, f, nodes) == _insert_elements(st, f, nodes, TRUE)

add_element_before(st, f, nodes) == _insert_elements(st, f, nodes, FALSE)

(* ----------------------- append_elements_at_end ------------------------ *)

\* data.get("body", []) : a missing body gives a list the tree does not hold
body_of(tree) == IF has(tree, "body") THEN get(tree, "body") ELSE List(<<>>)

\* one iteration of the loop of append_elements_at_end, on the body list
append_one(b, raw_node, insertion_index, inserted_count) ==
    IF ~isdict(raw_node) THEN [body |-> b.body, ids |-> b.ids, counters |-> b.counters, raised |-> TRUE]
    ELSE LET s == _sanitize_and_assign_id(raw_node, b.ids, b.counters)
             node == IF get(s.node, "type") = Str("paragraph") /\ ~truthy(get(s.node, "pPr"))
                     THEN set(s.node, "pPr", Dict(<<>>)) ELSE s.node
         IN  [body |-> ListInsert(b.body, insertion_index + inserted_count, node),
              ids |-> s.ids, counters |-> s.counters, raised |-> FALSE]

RECURSIVE append_loop(_, _, _, _)
append_loop(b, nodes, insertion_index, j) ==
    IF j > Len(nodes) \/ b.raised THEN b
    ELSE append_loop(append_one(b, nodes[j], insertion_index, j - 1),
                     nodes, insertion_index, j + 1)

append_elements_at_end(st, nodes) ==
    IF ~islist(nodes) THEN st
    ELSE LET body == body_of(st.tree).v
             n == Len(body)
         IN  IF n > 0 /\ ~isdict(body[n]) THEN InsState(st.tree, st.ids, st.counters, TRUE)
             ELSE LET insertion_index == IF n > 0 /\ get(body[n], "type") = Str("sectionProps")
                                         THEN n - 1 ELSE n
                      b == append_loop([body |-> body, ids |-> st.ids,
                                        counters |-> st.counters, raised |-> FALSE],
                                       nodes.v, insertion_index, 1)
                  IN  InsState(IF has(st.tree, "body")
                               THEN set(st.tree, "body", List(b.body)) ELSE st.tree,
                               b.ids, b.counters, b.raised)

(* ------------------------------- inputs -------------------------------- *)

MaxOps == 2

Run(text) == Dict(<<KV("type", Str("run")), KV("text", Str(text))>>)

RunF(text, rPr) == Dict(<<KV("type", Str("run")), KV("text", Str(text)), KV("rPr", rPr)>>)

Para(id, content) ==
    Dict(<<KV("type", Str("paragraph")), KV("id", Str(id)), KV("content", List(content))>>)

ParaP(id, pPr, content) ==
    Dict(<<KV("type", Str("paragraph")), KV("id", Str(id)), KV("pPr", pPr),
           KV("content", List(content))>>)

Table(id, blocks) ==
    Dict(<<KV("type", Str("table")), KV("id", Str(id)),
           KV("rows", List(<<Dict(<<KV("cells",
                List(<<Dict(<<KV("content", List(blocks))>>)>>))>>)>>))>>)

Doc(blocks) == Dict(<<KV("body", List(blocks))>>)

P1 == ParaP("p-1", Dict(<<KV("jc", Str("center"))>>),
            <<RunF("a", Dict(<<KV("b", Str("1"))>>))>>)

P2 == Para("p-2", <<Run("b")>>)

P3 == Para("p-3", <<>>)

\* documents as build_docx_json writes them, and as an earlier patch left them
Trees ==
    { Dict(<<KV("header", Para("h-1", <<>>)),
             KV("body", List(<<P1, Para("i-p-1", <<>>), P2, P3>>))>>),
      Doc(<<P1, Table("t-1", <<P2>>), Dict(<<KV("type", Str("sectionProps"))>>)>>),
      Doc(<<P1, P2, Str("raw")>>) }

\* nodes a patch may carry
NPlain == Dict(<<KV("type", Str("paragraph")), KV("content", List(<<Run("n")>>))>>)

NExported ==
    ParaP("p-1", Dict(<<KV("jc", Str("right"))>>), <<RunF("e", Dict(<<KV("i", Str("1"))>>))>>)

NCustom == Para("my-1", <<>>)

NTable == Dict(<<KV("type", Str("table")),
                 KV("rows", List(<<Dict(<<KV("cells",
                      List(<<Dict(<<KV("content", List(<<Para("p-1", <<>>)>>))>>)>>))>>)>>))>>)

NOther == Dict(<<KV("text", Str("x"))>>)

NFmt == Dict(<<KV("type", Str("paragraph")), KV("formatFrom", Str("p-1")),
               KV("content", List(<<Run("f")>>))>>)

\* a paragraph whose formatFrom names no element
NFmtMissing == Dict(<<KV("type", Str("paragraph")), KV("formatFrom", Str("p-8")),
                      KV("content", List(<<Run("g")>>))>>)

OpReplace(id, path, value) ==
    Dict(<<KV("op", Str("replace")), KV("id", Str(id)), KV("path", Str(path)),
           KV("value", value)>>)

OpDelete(id) == Dict(<<KV("op", Str("delete")), KV("id", Str(id))>>)

OpInsert(op, id, nodes) == Dict(<<KV("op", Str(op)), KV("id", Str(id)), KV("nodes", nodes)>>)

Ops ==
    { OpReplace("p-2", "pPr.jc", Str("left")),
      OpReplace("p-1", "pPr.jc.val", Str("left")),
      OpReplace("p-2", "id", Str("p-1")),
      OpReplace("p-9", "pPr.jc", Str("left")),
      Dict(<<KV("op", Str("replace")), KV("id", Str("p-1")), KV("value", Str("left"))>>),
      OpDelete("p-2"),
      OpDelete("h-1"),
      OpDelete("i-p-1"),
      OpInsert("insertAfter", "p-1", List(<<NPlain, NExported>>)),
      OpInsert("insertAfter", "p-2", List(<<NFmt>>)),
      OpInsert("insertAfter", "p-9", List(<<NExported, NOther>>)),
      OpInsert("insertAfter", "p-9", List(<<NFmt>>)),
      OpInsert("insertBefore", "p-1", List(<<NFmtMissing>>)),
      OpInsert("insertAfter", "h-1", List(<<NPlain>>)),
      OpInsert("insertBefore", "h-1", List(<<NPlain>>)),
      OpReplace("h-1", "pPr.jc", Str("left")),
      OpInsert("insertBefore", "p-3", List(<<NCustom, NCustom>>)),
      OpInsert("insertAfter", "p-1", List(<<NTable>>)),
      OpInsert("insertAfter", "p-2", List(<<Str("hello")>>)),
      OpInsert("insertBefore", "p-3", Str("x")),
      Dict(<<KV("id", Str("p-1"))>>),
      Dict(<<KV("op", Str("move")), KV("id", Str("p-1"))>> ) }

\* patch.get("ops", []) : every ops array of at most MaxOps operations
Patches == UNION {[1..n -> Ops] : n \in 0..MaxOps}

\* no export is running
NoExport ==
    /\ docx = [styles |-> None, numbering |-> None, theme |-> None, document |-> <<>>]
    /\ data_body = <<>>
    /\ key_to_props = <<>>
    /\ name_to_key = <<>>
    /\ registry = Dict(<<>>)
    /\ annotated = <<>>
    /\ final_body = <<>>
    /\ epc = "none"

\* no patch call is running
NoPatch ==
    /\ heap = <<>>
    /\ data = 0
    /\ patched_data = 0
    /\ patch = <<>>
    /\ existing_ids = {}
    /\ id_counters = [p \in {} |-> 1]
    /\ opi = 0
    /\ pc = "none"

\* no tool is called
NoCalls == files = {} /\ calls = <<>> /\ made = <<>>

\* no tool is called and none has been asked for
NoServer == NoCalls /\ request = <<>>

(* ----------------------------- apply_patch ----------------------------- *)

\* no copy: the same object
deepcopy_alias(h, ref) == [heap |-> h, ref |-> ref]

\* deepcopy(x) : a new object holding an equal value
deepcopy(h, ref) == [heap |-> Append(h, h[ref]), ref |-> Len(h) + 1]

Init ==
    /\ heap \in {<<t>> : t \in Trees}
    /\ data = 1
    /\ patched_data = 0
    /\ patch \in Patches
    /\ existing_ids = {}
    /\ id_counters = [p \in {} |-> 1]
    /\ opi = 0
    /\ pc = "ready"
    /\ NoExport /\ NoServer

\* lines 284-287: copy the tree, collect its ids, start the counters
Call ==
    /\ pc = "ready"
    /\ LET c == deepcopy(heap, data)
       IN  /\ heap' = c.heap
           /\ patched_data' = c.ref
           /\ existing_ids' = _collect_ids(c.heap[c.ref])
    /\ id_counters' = [p \in {} |-> 1]
    /\ opi' = 1
    /\ pc' = "loop"
    /\ UNCHANGED <<data, patch, evars, svars>>

InLoop == pc = "loop" /\ opi <= Len(patch)

op_type == get(patch[opi], "op")

element_id == get(patch[opi], "id")

ValidOp == InLoop /\ truthy(op_type) /\ truthy(element_id)

Found == find_element_and_parent(heap[patched_data], element_id, <<>>)

IsInsert == op_type \in {Str("insertAfter"), Str("insertBefore")}

Now == InsState(heap[patched_data], existing_ids, id_counters, FALSE)

\* the operation leaves st behind; an exception leaves apply_patch
Commit(st) ==
    /\ heap' = [heap EXCEPT ![patched_data] = st.tree]
    /\ existing_ids' = st.ids
    /\ id_counters' = st.counters
    /\ pc' = IF st.raised THEN "raised" ELSE "loop"
    /\ opi' = IF st.raised THEN opi ELSE opi + 1
    /\ UNCHANGED <<data, patched_data, patch, evars, svars>>

\* lines 293-295: no operation type or no id
SkipInvalid ==
    /\ InLoop
    /\ ~truthy(op_type) \/ ~truthy(element_id)
    /\ Commit(Now)

\* lines 299-304: the reference of an insert is not in the tree
Fallback ==
    /\ ValidOp /\ IsInsert /\ ~Found.ok
    /\ Commit(append_elements_at_end(Now, get(patch[opi], "nodes")))

\* lines 305-307: the element of another operation is not in the tree
SkipNotFound ==
    /\ ValidOp /\ ~IsInsert /\ ~Found.ok
    /\ Commit(Now)

Replace ==
    /\ ValidOp /\ op_type = Str("replace")
    /\ LET f == Found
       IN  /\ f.ok
           /\ LET r == edit_element_content(f.found, get(patch[opi], "path"),
                                            get(patch[opi], "value"))
              IN  Commit(InsState(PutAt(heap[patched_data], f.at, r.element),
                                  existing_ids, id_counters, FALSE))

Delete ==
    /\ ValidOp /\ op_type = Str("delete")
    /\ LET f == Found
       IN  /\ f.ok
           /\ Commit(InsState(delete_section(heap[patched_data], f),
                              existing_ids, id_counters, FALSE))

InsertAfter ==
    /\ ValidOp /\ op_type = Str("insertAfter")
    /\ LET f == Found
       IN  /\ f.ok
           /\ Commit(add_element_after(Now, f, get(patch[opi], "nodes")))

InsertBefore ==
    /\ ValidOp /\ op_type = Str("insertBefore")
    /\ LET f == Found
       IN  /\ f.ok
           /\ Commit(add_element_before(Now, f, get(patch[opi], "nodes")))

\* lines 322-323
UnknownOp ==
    /\ ValidOp
    /\ op_type \notin {Str("replace"), Str("delete"), Str("insertAfter"), Str("insertBefore")}
    /\ Found.ok
    /\ Commit(Now)

\* line 325
Return ==
    /\ pc = "loop" /\ opi > Len(patch)
    /\ pc' = "returned"
    /\ UNCHANGED <<heap, data, patched_data, patch, existing_ids, id_counters, opi, evars, svars>>

Next ==
    \/ Call
    \/ SkipInvalid
    \/ Fallback
    \/ SkipNotFound
    \/ Replace
    \/ Delete
    \/ InsertAfter
    \/ InsertBefore
    \/ UnknownOp
    \/ Return

Spec == Init /\ [][Next]_vars

(* ======================================================================= *)
(* Export: docx2json_runs_only.py (definition store, cascade resolver,     *)
(* content model builder) and docx2json_orchestrate.py (named-formatting   *)
(* registry).  The parsed package docx holds what extract_rPr, extract_pPr,*)
(* parse_styles, parse_numbering, parse_theme and collect_run_chunks read  *)
(* from its parts; JSON values gain bool, int and float (a float is held   *)
(* as its double, so that 11.0 is Half(22)).                               *)
(* ======================================================================= *)

Bool(b) == [k |-> "bool", v |-> b]

Integer(n) == [k |-> "int", v |-> n]

Half(n) == [k |-> "float", v |-> n]

isint(x) == x.k = "int"

\* a or b
py_or(a, b) == IF truthy(a) THEN a ELSE b

\* d.pop(key, None)
pop(d, key) == Dict(SelectSeq(d.v, LAMBDA e : e.key # key))

\* d.update(e)
RECURSIVE update(_, _)
update(d, e) ==
    IF Len(e.v) = 0 THEN d
    ELSE update(set(d, e.v[1].key, e.v[1].val), Dict(Tail(e.v)))

\* the first item of a list of dicts whose field key equals value, else None
first_with(items, key, value) ==
    LET ok == {j \in 1..Len(items) : get(items[j], key) = value}
    IN  IF ok = {} THEN None ELSE items[Min(ok)]

(* ------------------------------ strings -------------------------------- *)

Upper == <<"A", "B", "C", "D", "E", "F", "G", "H", "I", "J", "K", "L", "M",
           "N", "O", "P", "Q", "R", "S", "T", "U", "V", "W", "X", "Y", "Z">>

Lower == <<"a", "b", "c", "d", "e", "f", "g", "h", "i", "j", "k", "l", "m",
           "n", "o", "p", "q", "r", "s", "t", "u", "v", "w", "x", "y", "z">>

\* s with every character that is from[j] turned into to[j]
RECURSIVE translate(_, _, _)
translate(s, from, to) ==
    IF Len(s) = 0 THEN ""
    ELSE LET c == SubSeq(s, 1, 1)
             hit == {j \in 1..Len(from) : from[j] = c}
         IN  (IF hit = {} THEN c ELSE to[Min(hit)])
             \o translate(SubSeq(s, 2, Len(s)), from, to)

\* s.lower()
lower(s) == translate(s, Upper, Lower)

\* s.upper()
upper(s) == translate(s, Lower, Upper)

\* s.replace(" ", "_")
underscored(s) == translate(s, <<" ">>, <<"_">>)

\* s.strip()
RECURSIVE strip(_)
strip(s) ==
    IF Len(s) = 0 THEN s
    ELSE IF SubSeq(s, 1, 1) = " " THEN strip(SubSeq(s, 2, Len(s)))
    ELSE IF SubSeq(s, Len(s), Len(s)) = " " THEN strip(SubSeq(s, 1, Len(s) - 1))
    ELSE s

\* isinstance(x, str) and x.strip()
nonblank(x) == isstr(x) /\ strip(x.v) # ""

Digits == {"0", "1", "2", "3", "4", "5", "6", "7", "8", "9"}

\* the digits s begins with
RECURSIVE leading_digits(_)
leading_digits(s) ==
    IF Len(s) > 0 /\ SubSeq(s, 1, 1) \in Digits
    THEN SubSeq(s, 1, 1) \o leading_digits(SubSeq(s, 2, Len(s)))
    ELSE ""

\* s without the spaces it begins with
RECURSIVE skip_spaces(_)
skip_spaces(s) ==
    IF Len(s) > 0 /\ SubSeq(s, 1, 1) = " " THEN skip_spaces(SubSeq(s, 2, Len(s))) ELSE s

\* re.search(r"heading\s*(\d+)", s) : group 1 of the leftmost match, "" for
\* no match
RECURSIVE heading_number(_)
heading_number(s) ==
    IF Len(s) < 8 THEN ""
    ELSE LET d == IF startswith(s, "heading")
                  THEN leading_digits(skip_spaces(SubSeq(s, 8, Len(s)))) ELSE ""
         IN  IF d # "" THEN d ELSE heading_number(SubSeq(s, 2, Len(s)))

(* --------------------------- definition store -------------------------- *)

\* the while loop of resolve_style_chain: the ids from style_id to its root
RECURSIVE style_chain(_, _, _)
style_chain(styles, cur, visited) ==
    IF truthy(cur) /\ cur.v \notin visited /\ has(get(styles, "styles"), cur.v)
    THEN <<cur.v>> \o style_chain(styles,
                                  py_or(get(get(get(styles, "styles"), cur.v), "basedOn"),
                                        Str("")),
                                  visited \cup {cur.v})
    ELSE <<>>

\* the for loop of resolve_style_chain over chain[j..1] : base to derived
RECURSIVE apply_chain(_, _, _, _)
apply_chain(styles, chain, j, acc) ==
    IF j = 0 THEN acc
    ELSE LET s == get(get(styles, "styles"), chain[j])
         IN  apply_chain(styles, chain, j - 1,
                         [pPr |-> update(acc.pPr, get(s, "pPr")),
                          rPr |-> update(acc.rPr, get(s, "rPr"))])

\* resolve_style_chain with the chain applied derived to base
resolve_style_chain_derived_first(styles, style_id) ==
    LET chain == style_chain(styles, style_id, {})
        rev == [j \in 1..Len(chain) |-> chain[Len(chain) + 1 - j]]
    IN  apply_chain(styles, rev, Len(rev), [pPr |-> Dict(<<>>), rPr |-> Dict(<<>>)])

resolve_style_chain(styles, style_id) ==
    LET chain == style_chain(styles, style_id, {})
    IN  apply_chain(styles, chain, Len(chain), [pPr |-> Dict(<<>>), rPr |-> Dict(<<>>)])

get_numbering_rpr(num_pr, numbering) ==
    IF ~isdict(num_pr) THEN Dict(<<>>)
    ELSE LET num_id == get(num_pr, "numId")
             ilvl == IF has(num_pr, "ilvl") THEN get(num_pr, "ilvl") ELSE Integer(0)
             num_def == first_with(items_of(numbering, "nums"), "numId", num_id)
             abs_def == first_with(items_of(numbering, "abstractNums"), "abstractNumId",
                                   get(num_def, "abstractNumId"))
             lvl_def == first_with(items_of(abs_def, "levels"), "ilvl", ilvl)
             lvl_r == IF truthy(lvl_def) /\ has(lvl_def, "rPr")
                      THEN get(lvl_def, "rPr") ELSE Dict(<<>>)
             ov == first_with(items_of(num_def, "overrides"), "ilvl", ilvl)
         IN  IF num_id = None \/ ~truthy(num_def) \/ ~truthy(abs_def) THEN Dict(<<>>)
             ELSE IF ov = None THEN lvl_r
             ELSE update(lvl_r, IF has(ov, "rPr") THEN get(ov, "rPr") ELSE Dict(<<>>))

\* the classification of get_numbering_info: listKind and isBullet
list_kind(fmt) ==
    IF fmt = "bullet" THEN <<KV("listKind", Str("bullet")), KV("isBullet", Bool(TRUE))>>
    ELSE IF fmt \in {"decimal", "decimalZero", "ordinal"}
    THEN <<KV("listKind", Str("number")), KV("isBullet", Bool(FALSE))>>
    ELSE IF fmt \in {"lowerletter", "upperletter"}
    THEN <<KV("listKind", Str("letter")), KV("isBullet", Bool(FALSE))>>
    ELSE IF fmt \in {"lowerroman", "upperroman"}
    THEN <<KV("listKind", Str("roman")), KV("isBullet", Bool(FALSE))>>
    ELSE <<KV("listKind", Str(IF fmt = "" THEN "unknown" ELSE fmt)),
           KV("isBullet", Bool(FALSE))>>

get_numbering_info(num_pr, numbering) ==
    IF ~isdict(num_pr) \/ get(num_pr, "numId") = None
    THEN Dict(<<KV("present", Bool(FALSE))>>)
    ELSE LET num_id == get(num_pr, "numId")
             ilvl == IF has(num_pr, "ilvl") THEN get(num_pr, "ilvl") ELSE Integer(0)
             head == <<KV("present", Bool(TRUE)), KV("numId", num_id), KV("ilvl", ilvl)>>
             num_def == first_with(items_of(numbering, "nums"), "numId", num_id)
             abs_def == first_with(items_of(numbering, "abstractNums"), "abstractNumId",
                                   get(num_def, "abstractNumId"))
             level == IF truthy(abs_def)
                      THEN first_with(items_of(abs_def, "levels"), "ilvl", ilvl) ELSE None
             lv == IF truthy(level) THEN level ELSE Dict(<<>>)
             ovs == items_of(num_def, "overrides")
             hit == {j \in 1..Len(ovs) : /\ get(ovs[j], "ilvl") = ilvl
                                         /\ get(ovs[j], "startOverride") # None}
             startOverride == IF hit = {} THEN None ELSE get(ovs[Min(hit)], "startOverride")
             fmt == IF isstr(get(lv, "numFmt")) THEN lower(get(lv, "numFmt").v) ELSE ""
         IN  IF ~truthy(num_def) THEN Dict(head)
             ELSE Dict(head
                       \o <<KV("format", get(lv, "numFmt")),
                            KV("lvlText", get(lv, "lvlText")),
                            KV("start", get(lv, "start")),
                            KV("overrideStart", startOverride),
                            KV("isMultiLevel", Bool(truthy(ilvl) /\ ilvl.v > 0))>>
                       \o list_kind(fmt)
                       \o <<KV("restart", Bool(startOverride # None)),
                            KV("continue", Bool(startOverride = None))>>)

(* --------------------------- cascade resolver -------------------------- *)

resolve_theme_font(name_or_theme, theme) ==
    IF ~isstr(name_or_theme) THEN None
    ELSE LET low == lower(name_or_theme.v)
         IN  IF startswith(name_or_theme.v, "+") /\ startswith(low, "+major-latin")
                /\ truthy(get(theme, "majorLatin"))
             THEN get(theme, "majorLatin")
             ELSE IF startswith(name_or_theme.v, "+") /\ startswith(low, "+minor-latin")
                     /\ truthy(get(theme, "minorLatin"))
             THEN get(theme, "minorLatin")
             ELSE name_or_theme

\* for src in srcs: the first of the values vals, one per source, whose
\* test in oks passed, else None
first_of(vals, oks) ==
    LET hit == {j \in 1..Len(vals) : oks[j]}
    IN  IF hit = {} THEN None ELSE vals[Min(hit)]

\* the values the sources srcs hold under key, in order
each_get(srcs, key) == [j \in 1..Len(srcs) |-> get(srcs[j], key)]

\* a.get(key) or b.get(key) or ... over the sources in order
RECURSIVE or_chain(_, _)
or_chain(srcs, key) ==
    IF Len(srcs) = 1 THEN get(srcs[1], key)
    ELSE py_or(get(Head(srcs), key), or_chain(Tail(srcs), key))

\* the font name a source gives
font_name(src, theme) ==
    LET rf == py_or(get(src, "rFonts"), Dict(<<>>))
    IN  resolve_theme_font(py_or(get(rf, "ascii"),
                                 py_or(get(rf, "hAnsi"),
                                       py_or(get(rf, "asciiTheme"), get(rf, "hAnsiTheme")))),
                           theme)

pick_visible_font(run_rpr, char_rpr, para_rpr, pstyle_rpr, num_rpr, theme) ==
    LET srcs == <<run_rpr, char_rpr, pstyle_rpr, num_rpr, para_rpr>>
        names == [j \in 1..5 |-> font_name(srcs[j], theme)]
        name == first_of(names, [j \in 1..5 |-> nonblank(names[j])])
    IN  IF name = None THEN None
        ELSE Dict(<<KV("ascii", name), KV("hAnsi", name)>>)

pick_visible_size(run_rpr, char_rpr, para_rpr, pstyle_rpr, num_rpr) ==
    LET srcs == <<run_rpr, char_rpr, pstyle_rpr, num_rpr, para_rpr>>
        sizes == [j \in 1..5 |-> py_or(get(srcs[j], "sizeHalfPoints"),
                                       get(srcs[j], "sizeCsHalfPoints"))]
    IN  first_of(sizes, [j \in 1..5 |-> isint(sizes[j])])

\* pick_visible_bool that stops on True only
pick_visible_bool_true_only(prop, rprs) ==
    LET vals == each_get(rprs, prop)
    IN  first_of(vals, [j \in 1..Len(vals) |-> truthy(vals[j])])

pick_visible_bool(prop, rprs) ==
    LET vals == each_get(rprs, prop)
    IN  first_of(vals, [j \in 1..Len(vals) |-> vals[j] # None])

Sentinels == {"000000", "AUTO", "WINDOWTEXT"}

pick_visible_color(rprs) ==
    LET vals == each_get(rprs, "color")
    IN  first_of(vals, [j \in 1..Len(vals) |->
                           nonblank(vals[j]) /\ upper(vals[j].v) \notin Sentinels])

\* the sources in the order the bool, color, underline, highlight and
\* vertAlign lookups of build_visible_run_rpr pass them
lookup_order(run_rpr, char_rpr, para_rpr, pstyle_rpr, num_rpr) ==
    <<run_rpr, char_rpr, pstyle_rpr, num_rpr, para_rpr>>

\* out[key] = val when cond
set_if(out, cond, key, val) == IF cond THEN set(out, key, val) ELSE out

\* the body of "for bkey in (bold, italic, strike)" for one bkey
visible_bool(out, bkey, run_rpr, srcs) ==
    LET val == pick_visible_bool(bkey, srcs)
        o1 == set_if(out, truthy(val), bkey, Bool(TRUE))
    IN  set_if(o1, isdict(run_rpr) /\ has(run_rpr, bkey) /\ get(run_rpr, bkey) = Bool(FALSE),
               bkey, Bool(FALSE))

build_visible_run_rpr(run_rpr, char_rpr, para_rpr, pstyle_rpr, num_rpr, theme) ==
    LET srcs == lookup_order(run_rpr, char_rpr, para_rpr, pstyle_rpr, num_rpr)
        font == pick_visible_font(run_rpr, char_rpr, para_rpr, pstyle_rpr, num_rpr, theme)
        o1 == set_if(Dict(<<>>), truthy(font), "rFonts", font)
        sz == pick_visible_size(run_rpr, char_rpr, para_rpr, pstyle_rpr, num_rpr)
        o2 == set_if(o1, isint(sz), "sizeHalfPoints", sz)
        o3 == visible_bool(o2, "bold", run_rpr, srcs)
        o4 == visible_bool(o3, "italic", run_rpr, srcs)
        o5 == visible_bool(o4, "strike", run_rpr, srcs)
        u == or_chain(srcs, "underline")
        o6 == set_if(o5, isdict(u) /\ truthy(get(u, "val")) /\ get(u, "val") # Str("none"),
                     "underline", Dict(<<KV("val", get(u, "val"))>>))
        color == pick_visible_color(srcs)
        o7 == set_if(o6, truthy(color), "color", color)
        hi == or_chain(srcs, "highlight")
        o8 == set_if(o7, nonblank(hi), "highlight", hi)
        va == or_chain(srcs, "vertAlign")
    IN  set_if(o8, nonblank(va), "vertAlign", va)

(* ------------------------ content model builder ------------------------ *)

pick_visible_alignment(declared_pPr, pstyle_p) ==
    IF nonblank(get(declared_pPr, "jc")) THEN get(declared_pPr, "jc")
    ELSE IF nonblank(get(pstyle_p, "jc")) THEN get(pstyle_p, "jc")
    ELSE None

\* json.dumps(props, sort_keys=True) : equal for two values exactly when they
\* are equal up to the order of the keys of their mappings; a mapping is
\* held as the set of its (key, canonical value) pairs
RECURSIVE canon(_)
canon(x) ==
    IF isdict(x) THEN [k |-> "canon", v |-> {<<x.v[j].key, canon(x.v[j].val)>> : j \in 1..Len(x.v)}]
    ELSE IF islist(x) THEN List([j \in 1..Len(x.v) |-> canon(x.v[j])])
    ELSE x

\* canon_props(run_obj) of consolidate_runs
canon_props(run_obj) == canon(py_or(get(run_obj, "text_full_properties"), Dict(<<>>)))

isrun(x) == isdict(x) /\ get(x, "type") = Str("run")

to_chunks(run) ==
    IF has(run, "chunks") THEN get(run, "chunks").v
    ELSE IF has(run, "text")
    THEN <<Dict(<<KV("type", Str("text")), KV("text", get(run, "text"))>>)>>
    ELSE <<>>

\* the merge without its last case: runs of different forms are not merged
merge_same_form(out, item) ==
    LET prev == out[Len(out)]
    IN  IF has(prev, "text") /\ has(item, "text")
        THEN [out EXCEPT ![Len(out)] = set(prev, "text",
                                           Str(get(prev, "text").v \o get(item, "text").v))]
        ELSE IF has(prev, "chunks") /\ has(item, "chunks")
        THEN [out EXCEPT ![Len(out)] = set(prev, "chunks",
                                           List(get(prev, "chunks").v \o get(item, "chunks").v))]
        ELSE Append(out, item)

\* item merged into the last run of out: text, chunks, or mixed
merge(out, item) ==
    LET prev == out[Len(out)]
    IN  IF has(prev, "text") /\ has(item, "text")
        THEN [out EXCEPT ![Len(out)] = set(prev, "text",
                                           Str(get(prev, "text").v \o get(item, "text").v))]
        ELSE IF has(prev, "chunks") /\ has(item, "chunks")
        THEN [out EXCEPT ![Len(out)] = set(prev, "chunks",
                                           List(get(prev, "chunks").v \o get(item, "chunks").v))]
        ELSE [out EXCEPT ![Len(out)] =
                 pop(set(prev, "chunks", List(to_chunks(prev) \o to_chunks(item))), "text")]

RECURSIVE consolidate_loop(_, _)
consolidate_loop(out, content_list) ==
    IF content_list = <<>> THEN out
    ELSE LET item == Head(content_list)
         IN  consolidate_loop(
                 IF /\ Len(out) > 0 /\ isrun(item) /\ isrun(out[Len(out)])
                    /\ canon_props(out[Len(out)]) = canon_props(item)
                 THEN merge(out, item)
                 ELSE Append(out, item),
                 Tail(content_list))

consolidate_runs(content_list) == consolidate_loop(<<>>, content_list)

\* the tfp a run gets: its visible rPr and the metadata used for naming
text_full_properties(vis, style_id, paragraph_style_name, rPr, num_info, visible_alignment, styles) ==
    LET t1 == Dict(<<KV("rPr", vis)>>)
        t2 == set_if(t1, truthy(get(vis, "rFonts")), "fontName",
                     py_or(get(get(vis, "rFonts"), "ascii"), get(get(vis, "rFonts"), "hAnsi")))
        t3 == set(t2, "fontSizePt",
                  IF isint(get(vis, "sizeHalfPoints")) THEN Half(get(vis, "sizeHalfPoints").v)
                  ELSE Half(22))
        t4 == set_if(t3, truthy(style_id), "paragraphStyleId", style_id)
        t5 == set_if(t4, truthy(paragraph_style_name), "paragraphStyleName",
                     paragraph_style_name)
        t6 == set_if(t5, truthy(get(rPr, "rStyle")), "characterStyleId", get(rPr, "rStyle"))
        t7 == set_if(t6, truthy(get(rPr, "rStyle")), "characterStyleName",
                     get(get(get(styles, "styles"), get(rPr, "rStyle").v), "name"))
        t8 == set_if(t7, truthy(get(num_info, "present")), "numbering", num_info)
    IN  set_if(t8, truthy(visible_alignment), "alignment", visible_alignment)

\* declared_pPr.get("rPr", {}) merged over the document defaults
direct_rpr_over_defaults(declared_pPr, styles) ==
    update(get(get(styles, "docDefaults"), "rPr"),
           IF has(declared_pPr, "rPr") THEN get(declared_pPr, "rPr") ELSE Dict(<<>>))

\* para_r : declared_pPr.get("rPr", {})
direct_rpr(declared_pPr, styles) ==
    IF has(declared_pPr, "rPr") THEN get(declared_pPr, "rPr") ELSE Dict(<<>>)

\* what parse_paragraph resolves once for the paragraph
paragraph_context(p, styles, numbering) ==
    LET declared_pPr == get(p, "pPr")
        style_id == py_or(get(declared_pPr, "styleId"), get(styles, "defaultParagraphStyleId"))
        chain == IF truthy(style_id) THEN resolve_style_chain(styles, style_id)
                 ELSE [pPr |-> Dict(<<>>), rPr |-> Dict(<<>>)]
    IN  [declared_pPr |-> declared_pPr,
         style_id |-> style_id,
         pstyle_p |-> chain.pPr,
         pstyle_r |-> chain.rPr,
         num_r |-> get_numbering_rpr(get(declared_pPr, "numPr"), numbering),
         num_info |-> get_numbering_info(get(declared_pPr, "numPr"), numbering),
         para_r |-> direct_rpr(declared_pPr, styles),
         paragraph_style_name |->
             IF truthy(style_id)
             THEN get(get(get(styles, "styles"), style_id.v), "name") ELSE None,
         visible_alignment |-> pick_visible_alignment(declared_pPr, chain.pPr)]

\* char_r of a run element
char_rpr_of(r, styles) ==
    IF truthy(get(get(r, "rPr"), "rStyle"))
    THEN resolve_style_chain(styles, get(get(r, "rPr"), "rStyle")).rPr
    ELSE Dict(<<>>)

\* the run object parse_paragraph builds for a run element r
run_obj(r, c, styles, theme) ==
    LET rPr == get(r, "rPr")
        vis == build_visible_run_rpr(rPr, char_rpr_of(r, styles), c.para_r, c.pstyle_r,
                                     c.num_r, theme)
        chunks == get(r, "chunks").v
        tfp == text_full_properties(vis, c.style_id, c.paragraph_style_name, rPr,
                                    c.num_info, c.visible_alignment, styles)
        parts == [j \in 1..Len(chunks) |->
                    IF has(chunks[j], "text") THEN get(chunks[j], "text").v ELSE ""]
        joined[j \in 0..Len(chunks)] == IF j = 0 THEN "" ELSE joined[j - 1] \o parts[j]
    IN  IF \A j \in 1..Len(chunks) : get(chunks[j], "type") = Str("text")
        THEN Dict(<<KV("type", Str("run")), KV("text", Str(joined[Len(chunks)])),
                    KV("text_full_properties", tfp)>>)
        ELSE Dict(<<KV("type", Str("run")), KV("chunks", List(chunks)),
                    KV("text_full_properties", tfp)>>)

\* the content item for one child element of the paragraph
child_item(child, c, styles, theme) ==
    IF get(child, "tag") = Str("r") THEN run_obj(child, c, styles, theme)
    ELSE LET rs == get(child, "runs").v
         IN  Dict(<<KV("type", Str("hyperlink")), KV("target", get(child, "id")),
                    KV("runs", List(consolidate_runs(
                        [j \in 1..Len(rs) |-> run_obj(rs[j], c, styles, theme)])))>>)

parse_paragraph(p, styles, numbering, theme) ==
    LET c == paragraph_context(p, styles, numbering)
        children == get(p, "children").v
        shown == SelectSeq(c.declared_pPr.v, LAMBDA e : e.key \in {"jc", "numPr"})
    IN  Dict(<<KV("type", Str("paragraph")), KV("p", Dict(shown)),
               KV("content", List(consolidate_runs(
                   [j \in 1..Len(children) |-> child_item(children[j], c, styles, theme)])))>>)

\* the blocks of the w:p and w:tbl elements among els, in order
RECURSIVE parse_table(_, _, _, _)
RECURSIVE parse_blocks(_, _, _, _)
parse_blocks(els, styles, numbering, theme) ==
    LET blocks == SelectSeq(els, LAMBDA el : get(el, "tag") \in {Str("p"), Str("tbl")})
    IN  [j \in 1..Len(blocks) |->
            IF get(blocks[j], "tag") = Str("p")
            THEN parse_paragraph(blocks[j], styles, numbering, theme)
            ELSE parse_table(blocks[j], styles, numbering, theme)]

parse_table(tbl, styles, numbering, theme) ==
    LET trs == get(tbl, "rows").v
        cell(tc) == Dict(<<KV("content", List(parse_blocks(get(tc, "children").v,
                                                           styles, numbering, theme))),
                           KV("tcPr", get(tc, "tcPr"))>>)
        row(tr) == Dict(<<KV("cells", List([c \in 1..Len(tr.v) |-> cell(tr.v[c])]))>>)
    IN  Dict(<<KV("type", Str("table")),
               KV("rows", List([r \in 1..Len(trs) |-> row(trs[r])]))>>)

parse_document_part(document, styles, numbering, theme) ==
    parse_blocks(document, styles, numbering, theme)

(* ----------------------- named-formatting registry --------------------- *)

\* _canon_props(d) of the orchestrator
_canon_props(d) == canon(py_or(d, Dict(<<>>)))

\* props.get("text_full_properties", {}).get(key) if key not in props
\* else props.get(key)
named_field(props, key) ==
    IF ~has(props, key)
    THEN get(IF has(props, "text_full_properties")
             THEN get(props, "text_full_properties") ELSE Dict(<<>>), key)
    ELSE get(props, key)

\* style_tag for a style name or id s, already stripped and lowered
style_tag(s) ==
    IF heading_number(s) # "" THEN "heading_" \o heading_number(s)
    ELSE IF s = "title" THEN "title"
    ELSE underscored(s)

\* "_".join(parts)
RECURSIVE join(_)
join(parts) ==
    IF parts = <<>> THEN ""
    ELSE IF Len(parts) = 1 THEN parts[1]
    ELSE parts[1] \o "_" \o join(Tail(parts))

\* _gen_semantic_name without the emphasis flags
_gen_semantic_name_plain(props) ==
    LET rpr == named_field(props, "rPr")
        paragraphStyleName == named_field(props, "paragraphStyleName")
        szhp == get(rpr, "sizeHalfPoints")
        parts == (IF nonblank(paragraphStyleName)
                  THEN <<style_tag(lower(strip(paragraphStyleName.v)))>> ELSE <<>>)
                 \o (IF isint(szhp) THEN <<ToString(szhp.v \div 2) \o "pt">> ELSE <<>>)
    IN  (IF parts = <<>> THEN "default_text_format" ELSE join(parts)) \o "_format"

_gen_semantic_name(props) ==
    LET rpr == named_field(props, "rPr")
        paragraphStyleName == named_field(props, "paragraphStyleName")
        paragraphStyleId == named_field(props, "paragraphStyleId")
        tag == IF nonblank(paragraphStyleName)
               THEN <<style_tag(lower(strip(paragraphStyleName.v)))>>
               ELSE IF nonblank(paragraphStyleId)
               THEN <<style_tag(lower(strip(paragraphStyleId.v)))>>
               ELSE <<>>
        style == IF tag # <<>> /\ tag[1] # "" THEN tag ELSE <<>>
        flag(key) == IF truthy(get(rpr, key)) THEN <<key>> ELSE <<>>
        font == py_or(named_field(props, "fontName"), get(get(rpr, "rFonts"), "ascii"))
        szhp == get(rpr, "sizeHalfPoints")
        color == get(rpr, "color")
        hi == get(rpr, "highlight")
        parts == style \o flag("bold") \o flag("italic") \o flag("underline")
                 \o (IF truthy(font) THEN <<underscored(lower(font.v))>> ELSE <<>>)
                 \o (IF isint(szhp) THEN <<ToString(szhp.v \div 2) \o "pt">> ELSE <<>>)
                 \o (IF isstr(color) /\ truthy(color)
                     THEN <<"color_" \o lower(color.v)>> ELSE <<>>)
                 \o (IF isstr(hi) /\ truthy(hi)
                     THEN <<"highlight_" \o lower(hi.v)>> ELSE <<>>)
    IN  (IF parts = <<>> THEN "default_text_format" ELSE join(parts)) \o "_format"

\* the runs collect visits in a paragraph: its runs and its hyperlinks' runs
RECURSIVE runs_in(_)
runs_in(content) ==
    IF content = <<>> THEN <<>>
    ELSE LET item == Head(content)
         IN  (IF isrun(item) THEN <<item>>
              ELSE IF isdict(item) /\ get(item, "type") = Str("hyperlink")
              THEN items_of(item, "runs")
              ELSE <<>>)
             \o runs_in(Tail(content))

\* key_to_props.setdefault(key, tfp) for each run of runs, in order
RECURSIVE collect_runs(_, _)
collect_runs(acc, runs) ==
    IF runs = <<>> THEN acc
    ELSE LET tfp == get(Head(runs), "text_full_properties")
             key == _canon_props(tfp)
         IN  collect_runs(IF truthy(tfp) /\ \A j \in 1..Len(acc) : acc[j].key # key
                          THEN Append(acc, [key |-> key, props |-> tfp])
                          ELSE acc,
                          Tail(runs))

\* the cells of a table, row after row
RECURSIVE cells_of_rows(_)
cells_of_rows(rows) ==
    IF rows = <<>> THEN <<>>
    ELSE items_of(Head(rows), "cells") \o cells_of_rows(Tail(rows))

\* collect(body) : the unique keys in document order, each with its bag
RECURSIVE collect(_, _)
RECURSIVE collect_cells(_, _)
collect_cells(acc, cells) ==
    IF cells = <<>> THEN acc
    ELSE collect_cells(collect(acc, items_of(Head(cells), "content")), Tail(cells))

collect(acc, blocks) ==
    IF blocks = <<>> THEN acc
    ELSE collect(IF isdict(Head(blocks)) /\ get(Head(blocks), "type") = Str("paragraph")
                 THEN collect_runs(acc, runs_in(items_of(Head(blocks), "content")))
                 ELSE IF isdict(Head(blocks)) /\ get(Head(blocks), "type") = Str("table")
                 THEN collect_cells(acc, cells_of_rows(items_of(Head(blocks), "rows")))
                 ELSE acc,
                 Tail(blocks))

\* name in name_to_key and name_to_key[name] != key
taken(names, name, key) == \E j \in 1..Len(names) : names[j].name = name /\ names[j].key # key

\* the while loop of the name assignment without the test on the key
free_name_first_try(names, base, name, n, key) == name

\* the while loop of the name assignment
RECURSIVE free_name(_, _, _, _, _)
free_name(names, base, name, n, key) ==
    IF taken(names, name, key)
    THEN free_name(names, base, base \o "_" \o ToString(n), n + 1, key)
    ELSE name

\* name_to_key[name] = key
bind(names, name, key) ==
    IF \E j \in 1..Len(names) : names[j].name = name
    THEN [j \in 1..Len(names) |->
            IF names[j].name = name THEN [name |-> name, key |-> key] ELSE names[j]]
    ELSE Append(names, [name |-> name, key |-> key])

\* _merge_runs_sequence
RECURSIVE _merge_runs_loop(_, _)
_merge_runs_loop(out, items) ==
    IF items = <<>> THEN out
    ELSE LET it == Head(items)
         IN  _merge_runs_loop(
                 IF /\ Len(out) > 0 /\ isrun(it) /\ isrun(out[Len(out)])
                    /\ truthy(get(out[Len(out)], "textPropsRef"))
                    /\ get(out[Len(out)], "textPropsRef") = get(it, "textPropsRef")
                 THEN merge(out, it)
                 ELSE Append(out, it),
                 Tail(items))

_merge_runs_sequence(items) == _merge_runs_loop(<<>>, items)

\* a run with its bag replaced by the name of its key
annotate_run(item, names) ==
    LET tfp == get(item, "text_full_properties")
        run == pop(item, "text_full_properties")
        hit == {j \in 1..Len(names) : names[j].key = _canon_props(tfp)}
    IN  IF truthy(tfp) /\ hit # {}
        THEN set(run, "textPropsRef", Str(names[Min(hit)].name))
        ELSE run

\* annotate_item that passes a hyperlink on as it is
annotate_item_runs_only(item, names) ==
    IF isrun(item) THEN annotate_run(item, names) ELSE item

annotate_item(item, names) ==
    IF isrun(item) THEN annotate_run(item, names)
    ELSE IF isdict(item) /\ get(item, "type") = Str("hyperlink")
    THEN LET rs == items_of(item, "runs")
         IN  set(item, "runs", List([j \in 1..Len(rs) |-> annotate_run(rs[j], names)]))
    ELSE item

RECURSIVE _annotate_with_refs(_, _)
annotate_block(blk, names) ==
    IF isdict(blk) /\ get(blk, "type") = Str("paragraph")
    THEN LET c == items_of(blk, "content")
         IN  set(blk, "content",
                 List(_merge_runs_sequence([j \in 1..Len(c) |-> annotate_item(c[j], names)])))
    ELSE IF isdict(blk) /\ get(blk, "type") = Str("table")
    THEN LET rows == items_of(blk, "rows")
             nc(cell) == set(cell, "content",
                             List(_annotate_with_refs(items_of(cell, "content"), names)))
             new_cells(row) == LET cells == items_of(row, "cells")
                               IN  [c \in 1..Len(cells) |-> nc(cells[c])]
         IN  set(blk, "rows",
                 List([r \in 1..Len(rows) |-> Dict(<<KV("cells", List(new_cells(rows[r])))>>)]))
    ELSE blk

_annotate_with_refs(blocks, names) ==
    [j \in 1..Len(blocks) |-> annotate_block(blocks[j], names)]

\* pcount and tcount after a nested walk that left them at inner: the
\* counters of _assign_ids are shared by all walks, per-container counters
\* would go back to outer
counts_per_container(outer, inner) == outer

\* nonlocal pcount, tcount
counts_nonlocal(outer, inner) == inner

\* _assign_ids.walk with the counters at p and t: the blocks with their
\* ids, and the counters afterwards
RECURSIVE walk(_, _, _)
RECURSIVE walk_cells(_, _, _)
walk_cells(cells, p, t) ==
    IF cells = <<>> THEN [out |-> <<>>, p |-> p, t |-> t]
    ELSE LET cell == Head(cells)
             w == walk(items_of(cell, "content"), p, t)
             after == counts_nonlocal([p |-> p, t |-> t], [p |-> w.p, t |-> w.t])
             rest == walk_cells(Tail(cells), after.p, after.t)
         IN  [out |-> <<set(cell, "content", List(w.out))>> \o rest.out,
              p |-> rest.p, t |-> rest.t]

RECURSIVE walk_rows(_, _, _)
walk_rows(rows, p, t) ==
    IF rows = <<>> THEN [out |-> <<>>, p |-> p, t |-> t]
    ELSE LET w == walk_cells(items_of(Head(rows), "cells"), p, t)
             rest == walk_rows(Tail(rows), w.p, w.t)
         IN  [out |-> <<Dict(<<KV("cells", List(w.out))>>)>> \o rest.out,
              p |-> rest.p, t |-> rest.t]

walk(blks, p, t) ==
    IF blks = <<>> THEN [out |-> <<>>, p |-> p, t |-> t]
    ELSE LET blk == Head(blks)
         IN  IF isdict(blk) /\ get(blk, "type") = Str("paragraph")
             THEN LET rest == walk(Tail(blks), p + 1, t)
                  IN  [out |-> <<set(blk, "id", Str("p-" \o ToString(p)))>> \o rest.out,
                       p |-> rest.p, t |-> rest.t]
             ELSE IF isdict(blk) /\ get(blk, "type") = Str("table")
             THEN LET nb == set(blk, "id", Str("t-" \o ToString(t)))
                      w == walk_rows(items_of(nb, "rows"), p, t + 1)
                      rest == walk(Tail(blks), w.p, w.t)
                  IN  [out |-> <<set(nb, "rows", List(w.out))>> \o rest.out,
                       p |-> rest.p, t |-> rest.t]
             ELSE LET rest == walk(Tail(blks), p, t)
                  IN  [out |-> <<blk>> \o rest.out, p |-> rest.p, t |-> rest.t]

_assign_ids(blocks, pid_start, tid_start) == walk(blocks, pid_start, tid_start).out

(* ---------------------------- export inputs ---------------------------- *)

MaxRuns == 3

\* one style of styles["styles"], as parse_styles stores it
Style(sid, type, name, basedOn, rPr) ==
    KV(sid, Dict(<<KV("styleId", Str(sid)), KV("type", Str(type)), KV("name", Str(name)),
                   KV("basedOn", Str(basedOn)), KV("pPr", Dict(<<>>)), KV("rPr", rPr)>>))

\* the document defaults of every catalog: none of it may show in a bag
DocDefaults ==
    Dict(<<KV("rPr", Dict(<<KV("rFonts", Dict(<<KV("ascii", Str("Calibri")),
                                               KV("hAnsi", Str("Calibri"))>>)),
                            KV("sizeHalfPoints", Integer(22)),
                            KV("bold", Bool(TRUE)),
                            KV("color", Str("333333"))>>)),
           KV("pPr", Dict(<<>>))>>)

\* a catalog with the paragraph styles Normal (the default), Base and
\* Heading1 (based on Base) and the character style Emph
Styles(base_rPr, heading_rPr, emph_rPr) ==
    Dict(<<KV("docDefaults", DocDefaults),
           KV("styles", Dict(<<Style("Normal", "paragraph", "Normal", "", Dict(<<>>)),
                               Style("Base", "paragraph", "Base", "", base_rPr),
                               Style("Heading1", "paragraph", "heading 1", "Base", heading_rPr),
                               Style("Emph", "character", "Emphasis", "", emph_rPr)>>)),
           KV("defaultParagraphStyleId", Str("Normal")),
           KV("defaultCharacterStyleId", None)>>)

\* a numbering catalog: list 1 is abstract list 0, whose level 0 has lvl_rPr
Numbering(lvl_rPr) ==
    Dict(<<KV("abstractNums",
              List(<<Dict(<<KV("abstractNumId", Integer(0)),
                            KV("levels", List(<<Dict(<<KV("ilvl", Integer(0)),
                                                       KV("numFmt", Str("decimal")),
                                                       KV("lvlText", Str("%1.")),
                                                       KV("start", Integer(1)),
                                                       KV("pPr", Dict(<<>>)),
                                                       KV("rPr", lvl_rPr)>>)>>))>>)>>)),
           KV("nums", List(<<Dict(<<KV("numId", Integer(1)), KV("abstractNumId", Integer(0)),
                                    KV("overrides", List(<<>>))>>)>>))>>)

Theme == Dict(<<KV("majorLatin", Str("Cambria")), KV("minorLatin", Str("Calibri"))>>)

Text(s) == Dict(<<KV("type", Str("text")), KV("text", Str(s))>>)

\* a w:r element: its extract_rPr and its collect_run_chunks
R(rPr, chunks) == Dict(<<KV("tag", Str("r")), KV("rPr", rPr), KV("chunks", List(chunks))>>)

\* a w:p element: its extract_pPr and its children
P(pPr, children) == Dict(<<KV("tag", Str("p")), KV("pPr", pPr), KV("children", List(children))>>)

Docx(styles, numbering, document) ==
    [styles |-> styles, numbering |-> numbering, theme |-> Theme, document |-> document]

\* the properties of the cascade, each with the key that holds it in an rPr
\* and the values a source may give it
Props ==
    { [key |-> "bold", vals |-> {Bool(TRUE), Bool(FALSE)}],
      [key |-> "italic", vals |-> {Bool(TRUE), Bool(FALSE)}],
      [key |-> "strike", vals |-> {Bool(TRUE), Bool(FALSE)}],
      [key |-> "underline", vals |-> {Dict(<<KV("val", Str("single"))>>),
                                      Dict(<<KV("val", Str("double"))>>)}],
      [key |-> "color", vals |-> {Str("FF0000"), Str("0000FF"), Str("auto")}],
      [key |-> "highlight", vals |-> {Str("yellow"), Str("green")}],
      [key |-> "rFonts", vals |-> {Dict(<<KV("ascii", Str("Arial")), KV("hAnsi", Str("Arial"))>>),
                                   Dict(<<KV("asciiTheme", Str("+major-latin"))>>)}],
      [key |-> "sizeHalfPoints", vals |-> {Integer(32), Integer(24)}],
      [key |-> "vertAlign", vals |-> {Str("superscript"), Str("subscript")}] }

\* the rPr of a source that gives the property the value val, or does not
\* define it (None)
Entry(key, val) == IF val = None THEN Dict(<<>>) ELSE Dict(<<KV(key, val)>>)

\* the package in which each source of the cascade of the one run gives the
\* property key the value it has in v, or does not define it
CascadeDoc(key, v) ==
    Docx(Styles(Entry(key, v.pstyle), Dict(<<>>), Entry(key, v.char)),
         Numbering(Entry(key, v.num)),
         <<P(Dict((IF v.pstyle = None THEN <<>> ELSE <<KV("styleId", Str("Heading1"))>>)
                  \o (IF v.num = None THEN <<>>
                      ELSE <<KV("numPr", Dict(<<KV("ilvl", Integer(0)), KV("numId", Integer(1))>>))>>)
                  \o (IF v.para = None THEN <<>> ELSE <<KV("rPr", Entry(key, v.para))>>)),
             <<R(Dict((IF v.char = None THEN <<>> ELSE <<KV("rStyle", Str("Emph"))>>)
                      \o Entry(key, v.run).v),
                 <<Text("x")>>)>>)>>)

Sources == {"run", "char", "pstyle", "num", "para"}

\* Base is bold, Heading1 (based on Base) is 16pt, and the paragraph of
\* style Heading1 has one run with no direct formatting
HeadingDoc ==
    Docx(Styles(Dict(<<KV("bold", Bool(TRUE))>>), Dict(<<KV("sizeHalfPoints", Integer(32))>>),
                Dict(<<>>)),
         Numbering(Dict(<<>>)),
         <<P(Dict(<<KV("styleId", Str("Heading1"))>>), <<R(Dict(<<>>), <<Text("Title")>>)>>)>>)

Bold == KV("bold", Bool(TRUE))

\* the children a paragraph may have: runs of three bags that get the same
\* name, as text and as chunks, and a hyperlink
Kids ==
    { R(Dict(<<Bold>>), <<Text("a")>>),
      R(Dict(<<Bold>>), <<Text("b"), Dict(<<KV("type", Str("tab"))>>)>>),
      R(Dict(<<Bold, KV("strike", Bool(TRUE))>>), <<Text("c")>>),
      R(Dict(<<Bold, KV("vertAlign", Str("superscript"))>>), <<Text("d")>>),
      Dict(<<KV("tag", Str("hyperlink")), KV("id", Str("rId1")),
             KV("runs", List(<<R(Dict(<<Bold>>), <<Text("e")>>),
                               R(Dict(<<Bold>>), <<Dict(<<KV("type", Str("tab"))>>)>>)>>))>>) }

RunsDoc(kids) ==
    Docx(Styles(Dict(<<>>), Dict(<<>>), Dict(<<>>)), Numbering(Dict(<<>>)),
         <<P(Dict(<<KV("jc", Str("center"))>>), kids)>>)

\* the styles of a catalog of chains, and what each may be based on: one of
\* them, itself included, a style the catalog does not have, or nothing
ChainIds == {"A", "B", "C"}

Links == ChainIds \cup {"Gone", ""}

\* a catalog in which A, B and C are based on what links says; the three
\* give the size, B and C give bold, C gives italic
ChainStyles(links) ==
    Dict(<<KV("docDefaults", DocDefaults),
           KV("styles", Dict(<<
               Style("A", "paragraph", "A", links["A"],
                     Dict(<<KV("sizeHalfPoints", Integer(20))>>)),
               Style("B", "paragraph", "B", links["B"],
                     Dict(<<KV("sizeHalfPoints", Integer(24)), KV("bold", Bool(TRUE))>>)),
               Style("C", "paragraph", "C", links["C"],
                     Dict(<<KV("sizeHalfPoints", Integer(28)), KV("bold", Bool(FALSE)),
                            KV("italic", Bool(TRUE))>>))>>)),
           KV("defaultParagraphStyleId", Str("A")),
           KV("defaultCharacterStyleId", None)>>)

\* a paragraph of style sid with a run without formatting and a run with a
\* size of its own
ChainDoc(links, sid) ==
    [styles |-> ChainStyles(links), numbering |-> Numbering(Dict(<<>>)), theme |-> Theme,
     document |-> <<P(Dict(<<KV("styleId", Str(sid))>>),
                      <<R(Dict(<<>>), <<Text("x")>>),
                        R(Dict(<<KV("sizeHalfPoints", Integer(40))>>), <<Text("y")>>)>>)>>]

MaxBlocks == 2

\* a w:tc element: its tcPr as parse_table reads it, and its children
Tc(tcPr, children) ==
    Dict(<<KV("tag", Str("tc")), KV("tcPr", tcPr), KV("children", List(children))>>)

\* a w:tbl element: its w:tr elements, each the list of its w:tc elements
Tbl(rows) == Dict(<<KV("tag", Str("tbl")), KV("rows", List(rows))>>)

\* a paragraph of one bold run
Pa == P(Dict(<<>>), <<R(Dict(<<Bold>>), <<Text("a")>>)>>)

\* a paragraph of an italic run and a hyperlink of one bold run
Pi ==
    P(Dict(<<>>),
      <<R(Dict(<<KV("italic", Bool(TRUE))>>), <<Text("i")>>),
        Dict(<<KV("tag", Str("hyperlink")), KV("id", Str("rId2")),
               KV("runs", List(<<R(Dict(<<Bold>>), <<Text("l")>>)>>))>>)>>)

\* a table of one row of two cells
Flat ==
    Tbl(<<List(<<Tc(Dict(<<KV("gridSpan", Integer(2))>>), <<Pi>>),
                 Tc(Dict(<<>>), <<Pa, Pi>>)>>)>>)

\* a table of two rows whose first cell holds a table between two paragraphs
Nested ==
    Tbl(<<List(<<Tc(Dict(<<>>), <<Pa, Flat, Pa>>)>>),
          List(<<Tc(Dict(<<KV("vMerge", Str("continue"))>>), <<Pi>>)>>)>>)

\* the elements a body may hold
Blocks == {Pa, Flat, Nested}

TableDoc(blocks) ==
    Docx(Styles(Dict(<<>>), Dict(<<>>), Dict(<<>>)), Numbering(Dict(<<>>)), blocks)

(* ------------------------ export, build_docx_json ---------------------- *)

InitExport ==
    /\ NoPatch /\ NoServer
    /\ \/ \E pr \in Props : \E v \in [Sources -> pr.vals \cup {None}] :
             docx = CascadeDoc(pr.key, v)
       \/ docx = HeadingDoc
       \/ \E n \in 0..MaxRuns : \E kids \in [1..n -> Kids] : docx = RunsDoc(kids)
       \/ \E n \in 0..MaxBlocks : \E blocks \in [1..n -> Blocks] : docx = TableDoc(blocks)
       \/ \E links \in [ChainIds -> Links] : \E sid \in {"A", "Gone"} :
             docx = ChainDoc(links, sid)
    /\ data_body = <<>>
    /\ key_to_props = <<>>
    /\ name_to_key = <<>>
    /\ registry = Dict(<<>>)
    /\ annotated = <<>>
    /\ final_body = <<>>
    /\ epc = "start"

\* step 1, export_docx_to_json: the blocks of the document part
ExportRunsOnly ==
    /\ epc = "start"
    /\ data_body' = parse_document_part(docx.document, docx.styles, docx.numbering, docx.theme)
    /\ epc' = "exported"
    /\ UNCHANGED <<svars, pvars, docx, key_to_props, name_to_key, registry, annotated, final_body>>

\* step 2, first half: collect(body)
Collect ==
    /\ epc = "exported"
    /\ key_to_props' = collect(<<>>, data_body)
    /\ epc' = "naming"
    /\ UNCHANGED <<svars, pvars, docx, data_body, name_to_key, registry, annotated, final_body>>

\* step 2, second half: one iteration of "for key, props in key_to_props"
AssignName ==
    /\ epc = "naming"
    /\ Len(name_to_key) < Len(key_to_props)
    /\ LET e == key_to_props[Len(name_to_key) + 1]
           base == _gen_semantic_name(e.props)
           name == free_name(name_to_key, base, base, 2, e.key)
       IN  /\ name_to_key' = bind(name_to_key, name, e.key)
           /\ registry' = set(registry, name, e.props)
    /\ UNCHANGED <<svars, pvars, docx, data_body, key_to_props, annotated, final_body, epc>>

\* step 3: _annotate_with_refs
Annotate ==
    /\ epc = "naming"
    /\ Len(name_to_key) >= Len(key_to_props)
    /\ annotated' = _annotate_with_refs(data_body, name_to_key)
    /\ epc' = "annotated"
    /\ UNCHANGED <<svars, pvars, docx, data_body, key_to_props, name_to_key, registry, final_body>>

\* step 4: _assign_ids
AssignIds ==
    /\ epc = "annotated"
    /\ final_body' = _assign_ids(annotated, 1, 1)
    /\ epc' = "done"
    /\ UNCHANGED <<svars, pvars, docx, data_body, key_to_props, name_to_key, registry, annotated>>

NextExport ==
    \/ ExportRunsOnly
    \/ Collect
    \/ AssignName
    \/ Annotate
    \/ AssignIds

SpecExport == InitExport /\ [][NextExport]_vars

(* ------------------------ vocabulary of the claims ---------------------- *)

\* the working tree of the call, and the tree the caller passed in
Tree == heap[patched_data]

Input == heap[data]

Body(t) == get(t, "body").v

Nodes == IF islist(get(patch[opi], "nodes")) THEN get(patch[opi], "nodes").v ELSE <<>>

IsNumber(s) ==
    /\ Len(s) > 0
    /\ \A j \in 1..Len(s) :
          SubSeq(s, j, j) \in {"0", "1", "2", "3", "4", "5", "6", "7", "8", "9"}

Exported(id) == startswith(id, "p-") \/ startswith(id, "t-")

\* id is i-p-<n> for a paragraph, i-t-<n> for a table, i-<n> for another node
Reserved(node, id) ==
    LET pre == IF get(node, "type") = Str("paragraph") THEN "i-p-"
               ELSE IF get(node, "type") = Str("table") THEN "i-t-" ELSE "i-"
    IN  startswith(id, pre) /\ IsNumber(SubSeq(id, Len(pre) + 1, Len(id)))

\* the ids of all elements of a tree, in document order, with repetitions
RECURSIVE AllIds(_)
AllIds(x) ==
    IF isdict(x)
    THEN LET own == IF isstr(get(x, "id")) THEN <<get(x, "id").v>> ELSE <<>>
             F[j \in 0..Len(x.v)] == IF j = 0 THEN own ELSE F[j - 1] \o AllIds(x.v[j].val)
         IN  F[Len(x.v)]
    ELSE IF islist(x)
    THEN LET F[j \in 0..Len(x.v)] == IF j = 0 THEN <<>> ELSE F[j - 1] \o AllIds(x.v[j])
         IN  F[Len(x.v)]
    ELSE <<>>

NoDup(q) == \A a, b \in 1..Len(q) : a # b => q[a] # q[b]

\* the operation at opi is an insert whose reference is not in the tree
MissingRefInsert == ValidOp /\ IsInsert /\ ~Found.ok

\* the operation at opi is an insert that has a list to insert into
InsertStep == ValidOp /\ IsInsert /\ (Found.ok => Found.has_parent)

\* the list an insert step inserts into: the parent list of the reference,
\* the body when the reference is missing
TargetPath == IF Found.ok THEN Found.parent ELSE <<KeyStep("body")>>

\* L2 is L with Len(L2) - Len(L) consecutive items spliced in after position p
SplicedAt(L, L2, p) ==
    /\ Len(L2) >= Len(L)
    /\ SubSeq(L2, 1, p) = SubSeq(L, 1, p)
    /\ SubSeq(L2, p + (Len(L2) - Len(L)) + 1, Len(L2)) = SubSeq(L, p + 1, Len(L))

Spliced(L, L2, p) == SubSeq(L2, p + 1, p + (Len(L2) - Len(L)))

\* a node without its identity and paragraph properties
Core(n) == IF isdict(n) THEN Dict(SelectSeq(n.v, LAMBDA e : e.key \notin {"id", "pPr"})) ELSE n

(* -------------------------------- claims -------------------------------- *)

(* C1: an insertAfter or insertBefore whose id matches no element of the   *)
(* tree does not fail: all given nodes are placed, in the given order, at  *)
(* the end of the body (immediately before the last item when that is a    *)
(* section-properties block, otherwise after the last item), and no other  *)
(* body item is removed or reordered.                                      *)
C1_FallbackPlacesAllNodes ==
    [][MissingRefInsert =>
         LET b == Body(Tree)
             b2 == Body(heap'[patched_data])
             n == Len(b)
             at == IF n > 0 /\ isdict(b[n]) /\ get(b[n], "type") = Str("sectionProps")
                   THEN n - 1 ELSE n
         IN  /\ pc' = "loop"
             /\ Len(b2) = n + Len(Nodes)
             /\ SplicedAt(b, b2, at)
             /\ \A j \in 1..Len(Nodes) : Core(b2[at + j]) = Core(Nodes[j])]_vars

(* C2: every node placed by insertAfter, insertBefore or the fallback       *)
(* append, across the insert operations of one call, carries an identity   *)
(* that does not begin with p- or t-, that is not an identity of the tree  *)
(* the call started from, and that no other node inserted in the call      *)
(* carries: it is new to the known identities, which from then on hold it  *)
(* and are never forgotten.                                                *)
C2_InsertedIdsFresh ==
    [][/\ pc = "loop" => existing_ids \subseteq existing_ids'
       /\ InsertStep =>
            LET L == GetAt(Tree, TargetPath).v
                L2 == GetAt(heap'[patched_data], TargetPath).v
            IN  /\ \E p \in 0..Len(L) : SplicedAt(L, L2, p)
                /\ \A p \in 0..Len(L) : SplicedAt(L, L2, p) =>
                     LET new == Spliced(L, L2, p)
                     IN  \A j \in 1..Len(new) :
                            /\ isdict(new[j]) /\ isstr(get(new[j], "id"))
                            /\ ~Exported(get(new[j], "id").v)
                            /\ get(new[j], "id").v \notin _collect_ids(Input)
                            /\ get(new[j], "id").v \notin existing_ids
                            /\ get(new[j], "id").v \in existing_ids'
                            /\ \A j2 \in 1..Len(new) :
                                  j2 # j => get(new[j2], "id") # get(new[j], "id")]_vars

\* two inserts of one call have placed four nodes, in a tree that already
\* held an identity of the insert space
C2_Witness ==
    /\ pc = "returned"
    /\ Len(patch) = 2
    /\ get(patch[1], "op") = Str("insertAfter") /\ get(patch[2], "op") = Str("insertBefore")
    /\ "i-p-1" \in _collect_ids(Input)
    /\ Cardinality(_collect_ids(Tree) \ _collect_ids(Input)) = 4

(* C3: starting from a tree whose identities are pairwise distinct, after   *)
(* any sequence of replace, delete, insertAfter and insertBefore           *)
(* operations of one call no two elements of the tree, elements nested in  *)
(* inserted nodes included, carry the same identity.                       *)
C3_IdentitiesStayDistinct ==
    (pc \in {"loop", "returned"} /\ NoDup(AllIds(Input))) => NoDup(AllIds(Tree))

(* C4: every inserted node ends up with an identity of the reserved insert *)
(* space that matches its type, i-p-<n> for a paragraph, i-t-<n> for a     *)
(* table, i-<n> for any other node, whatever identity it carried.          *)
C4_InsertedIdsReserved ==
    [][InsertStep =>
         LET L == GetAt(Tree, TargetPath).v
             L2 == GetAt(heap'[patched_data], TargetPath).v
         IN  \A p \in 0..Len(L) : SplicedAt(L, L2, p) =>
                \A j \in 1..Len(Spliced(L, L2, p)) :
                   Reserved(Nodes[j], get(Spliced(L, L2, p)[j], "id").v)]_vars

(* C4, amended: an inserted node that carries no identity, an identity     *)
(* beginning with p- or t-, or an identity already known in the call (of   *)
(* the tree at the start, or given to a node inserted before it) ends up   *)
(* with an identity of the reserved insert space that matches its type; a  *)
(* node carrying any other identity keeps it.                              *)
C4_InsertedIdsReservedOrKept ==
    [][InsertStep =>
         LET L == GetAt(Tree, TargetPath).v
             L2 == GetAt(heap'[patched_data], TargetPath).v
         IN  \A p \in 0..Len(L) : SplicedAt(L, L2, p) =>
                LET new == Spliced(L, L2, p)
                IN  \A j \in 1..Len(new) :
                       LET given == get(Nodes[j], "id")
                           got == get(new[j], "id").v
                           known == existing_ids
                                    \cup {get(new[j2], "id").v : j2 \in 1..(j - 1)}
                           keeps == /\ isstr(given) /\ given.v # ""
                                    /\ ~Exported(given.v)
                                    /\ given.v \notin known
                       IN  IF keeps THEN got = given.v
                           ELSE Reserved(Nodes[j], got) /\ got \notin known]_vars

\* one insert has placed a node that kept its identity and a node, carrying
\* the same identity, that was given one of the insert space
C4_Witness ==
    /\ pc = "loop" /\ opi = 2
    /\ patch[1] = OpInsert("insertBefore", "p-3", List(<<NCustom, NCustom>>))
    /\ "p-3" \in _collect_ids(Input)
    /\ {"my-1", "i-p-2"} \subseteq _collect_ids(Tree)
    /\ "i-p-2" \notin _collect_ids(Input)

(* C5: when a delete(id) of the call has removed an element and a later    *)
(* insertAfter(id, nodes) names the same, now stale, id, the insert is     *)
(* treated as a missing reference: its nodes are appended at the end of    *)
(* the body, and the first paragraph so inserted receives the identity     *)
(* i-p-1 when the tree held no i-p- identity before the call.              *)
C5_StaleInsertAppends ==
    [][(/\ ValidOp /\ op_type = Str("insertAfter")
        /\ \E j \in 1..(opi - 1) : patch[j] = OpDelete(element_id.v)
        /\ element_id.v \in _collect_ids(Input)
        /\ element_id.v \notin _collect_ids(Tree)) =>
         LET b == Body(Tree)
             b2 == Body(heap'[patched_data])
             n == Len(b)
             at == IF n > 0 /\ isdict(b[n]) /\ get(b[n], "type") = Str("sectionProps")
                   THEN n - 1 ELSE n
             paras == {j \in 1..Len(Nodes) :
                         isdict(Nodes[j]) /\ get(Nodes[j], "type") = Str("paragraph")}
         IN  /\ pc' = "loop"
             /\ Len(b2) = n + Len(Nodes)
             /\ SplicedAt(b, b2, at)
             /\ \A j \in 1..Len(Nodes) : Core(b2[at + j]) = Core(Nodes[j])
             /\ (paras # {} /\ \A id \in _collect_ids(Input) : ~startswith(id, "i-p-"))
                   => get(b2[at + Min(paras)], "id") = Str("i-p-1")]_vars

(* C6: apply_patch executes the operations in the order of the ops array;  *)
(* an operation that fails (replace or delete with an unresolvable id, no  *)
(* operation type or id, nodes not given as a list, replace without path   *)
(* or value) leaves the tree as it was before that operation, and the      *)
(* operations after it are still applied, to the tree the earlier ones     *)
(* produced.                                                               *)
FailingOp ==
    /\ InLoop
    /\ \/ ~truthy(op_type)
       \/ ~truthy(element_id)
       \/ /\ op_type \in {Str("replace"), Str("delete")}
          /\ \A j \in 1..Len(AllIds(Tree)) : Str(AllIds(Tree)[j]) # element_id
       \/ IsInsert /\ ~islist(get(patch[opi], "nodes"))
       \/ /\ op_type = Str("replace")
          /\ (~has(patch[opi], "path") \/ ~has(patch[opi], "value"))

C6_FailedOpsAreSkipped ==
    [][/\ patch' = patch
       /\ (pc = "loop" /\ pc' = "loop") => opi' = opi + 1
       /\ pc' = "returned" => opi > Len(patch)
       /\ FailingOp => /\ heap'[patched_data] = Tree
                       /\ pc' = "loop"
                       /\ opi' = opi + 1]_vars

\* a delete with an unresolvable id was skipped and the delete after it
\* was applied
C6_Witness ==
    /\ pc = "returned"
    /\ patch = <<OpDelete("h-1"), OpDelete("p-2")>>
    /\ "h-1" \notin _collect_ids(Input)
    /\ "p-2" \in _collect_ids(Input)
    /\ "p-2" \notin _collect_ids(Tree)

(* C7: no patch input is fatal: for every tree and every ops list, insert  *)
(* operations whose nodes are not mappings and bodies whose last item is   *)
(* not a mapping included, apply_patch completes and returns a tree.       *)
C7_NoPatchIsFatal == pc # "raised"

(* C8: apply_patch works on a deep copy: the tree passed in stays equal to *)
(* what it was before the call, and the returned tree is another object,   *)
(* so that no mutation of it is seen through the tree passed in.           *)
C8_InputTreeUntouched ==
    [][heap'[data] = heap[data] /\ patched_data' # data]_vars

\* the call has returned a tree that differs from the tree passed in
C8_Witness == pc = "returned" /\ Tree # Input

(* C9: replace(id, dottedPath, value) creates missing intermediate mapping *)
(* levels and sets only the final field; when an intermediate key of the   *)
(* path already holds a value that is not a mapping, the replace fails and *)
(* the element is left unchanged.                                          *)
RECURSIVE BlockedPath(_, _)
BlockedPath(current, keys) ==
    /\ Len(keys) > 1
    /\ has(current, Head(keys))
    /\ IF isdict(get(current, Head(keys)))
       THEN BlockedPath(get(current, Head(keys)), Tail(keys))
       ELSE TRUE

RECURSIVE ValueAt(_, _)
ValueAt(current, keys) ==
    IF keys = <<>> THEN current
    ELSE IF isdict(current) THEN ValueAt(get(current, Head(keys)), Tail(keys))
    ELSE None

C9_ReplaceStopsAtNonMapping ==
    [][(/\ ValidOp /\ op_type = Str("replace") /\ Found.ok
        /\ has(patch[opi], "path") /\ has(patch[opi], "value")) =>
         LET keys == split(get(patch[opi], "path").v, ".")
             e == Found.found
             e2 == GetAt(heap'[patched_data], Found.at)
         IN  IF BlockedPath(e, keys) THEN e2 = e
             ELSE /\ ValueAt(e2, keys) = get(patch[opi], "value")
                  /\ \A j \in 1..Len(e.v) :
                        e.v[j].key # Head(keys) => get(e2, e.v[j].key) = e.v[j].val]_vars

(* C10: delete(id) on an element directly contained in a list removes      *)
(* exactly that element, with its subtree, from its parent sequence: the   *)
(* sequence becomes one shorter, its other items keep their order, and     *)
(* nothing outside that sequence changes.                                  *)
C10_DeleteRemovesOneItem ==
    [][(ValidOp /\ op_type = Str("delete") /\ Found.ok /\ Found.has_parent) =>
         LET L == GetAt(Tree, Found.parent).v
             L2 == GetAt(heap'[patched_data], Found.parent).v
             i == Found.index + 1
         IN  /\ isdict(L[i]) /\ get(L[i], "id") = element_id
             /\ Len(L2) = Len(L) - 1
             /\ \A j \in 1..(i - 1) : L2[j] = L[j]
             /\ \A j \in (i + 1)..Len(L) : L2[j - 1] = L[j]
             /\ PutAt(heap'[patched_data], Found.parent, List(L)) = Tree
             /\ pc' = "loop"]_vars

\* a paragraph in a table cell has been deleted: the cell is empty, the
\* table and the body around it are in place
C10_Witness ==
    /\ pc = "returned"
    /\ patch = <<OpDelete("p-2")>>
    /\ Input = Doc(<<P1, Table("t-1", <<P2>>), Dict(<<KV("type", Str("sectionProps"))>>)>>)
    /\ Tree = Doc(<<P1, Table("t-1", <<>>), Dict(<<KV("type", Str("sectionProps"))>>)>>)

\* a node without what sanitizing and the formatting back-fill may add: its
\* identity, its paragraph properties and the formatting of its runs
Skeleton(n) ==
    IF ~isdict(n) THEN n
    ELSE Dict([j \in 1..Len(Core(n).v) |->
                 LET e == Core(n).v[j]
                 IN  IF e.key = "content" /\ islist(e.val)
                     THEN KV("content",
                             List([m \in 1..Len(e.val.v) |->
                                     IF isdict(e.val.v[m])
                                     THEN Dict(SelectSeq(e.val.v[m].v,
                                                         LAMBDA r : r.key # "rPr"))
                                     ELSE e.val.v[m]]))
                     ELSE e])

(* C11: for a reference element at index i of its parent sequence,         *)
(* insertAfter(id, [n1..nk]) leaves the reference at index i and places    *)
(* n1..nk at indices i+1..i+k in the given order; insertBefore places      *)
(* n1..nk at indices i..i+k-1 in the given order and moves the reference   *)
(* to index i+k; the items present before keep their relative order.       *)
C11_InsertAdjacentInOrder ==
    [][(/\ ValidOp /\ IsInsert /\ Found.ok /\ Found.has_parent
        /\ islist(get(patch[opi], "nodes"))) =>
         LET L == GetAt(Tree, Found.parent).v
             L2 == GetAt(heap'[patched_data], Found.parent).v
             i == Found.index
             k == Len(Nodes)
             after == op_type = Str("insertAfter")
             first == IF after THEN i + 1 ELSE i
         IN  /\ pc' = "loop"
             /\ Len(L2) = Len(L) + k
             /\ SplicedAt(L, L2, first)
             /\ \A j \in 1..k : Skeleton(L2[first + j]) = Skeleton(Nodes[j])
             /\ L2[(IF after THEN i ELSE i + k) + 1] = L[i + 1]]_vars

\* where an insert step places its first node, as a count of the items of
\* the target list before it
InsertAt ==
    IF Found.ok
    THEN (IF op_type = Str("insertAfter") THEN Found.index + 1 ELSE Found.index)
    ELSE LET b == Body(Tree)
         IN  IF Len(b) > 0 /\ isdict(b[Len(b)])
                /\ get(b[Len(b)], "type") = Str("sectionProps")
             THEN Len(b) - 1 ELSE Len(b)

\* the nodes an insert step has placed, in their places
Placed == LET L == GetAt(Tree, TargetPath).v
              L2 == GetAt(heap'[patched_data], TargetPath).v
          IN  SubSeq(L2, InsertAt + 1, InsertAt + (Len(L2) - Len(L)))

(* C12: the formatting back-fill of an insertion is non-destructive:       *)
(* paragraph properties an inserted paragraph declares, and a run of it    *)
(* that declares its own run formatting, are after the insertion what the  *)
(* patch supplied; only an absent (or empty) pPr is filled, only runs with *)
(* an absent (or empty) rPr get one, and nothing else of the node changes  *)
(* but its identity.                                                       *)
C12_BackfillKeepsDeclared ==
    [][InsertStep =>
         \A j \in 1..Len(Placed) :
            LET given == Nodes[j]
                got == Placed[j]
                c == items_of(given, "content")
                c2 == items_of(got, "content")
            IN  /\ truthy(get(given, "pPr")) => get(got, "pPr") = get(given, "pPr")
                /\ \A e \in 1..Len(given.v) :
                      given.v[e].key \notin {"id", "pPr", "content"}
                         => get(got, given.v[e].key) = given.v[e].val
                /\ \A e \in 1..Len(got.v) :
                      got.v[e].key \notin {"id", "pPr"} => has(given, got.v[e].key)
                /\ Len(c2) = Len(c)
                /\ \A m \in 1..Len(c) :
                      IF isdict(c[m]) /\ ~truthy(get(c[m], "rPr"))
                      THEN Dict(SelectSeq(c2[m].v, LAMBDA r : r.key # "rPr"))
                           = Dict(SelectSeq(c[m].v, LAMBDA r : r.key # "rPr"))
                      ELSE c2[m] = c[m]]_vars

\* after p-1, which is centred and has a run with formatting, a paragraph
\* declaring neither and a paragraph declaring both have been inserted: the
\* first took p-1's, the second has its own
C12_Witness ==
    /\ pc = "loop" /\ opi = 2
    /\ patch[1] = OpInsert("insertAfter", "p-1", List(<<NPlain, NExported>>))
    /\ get(Body(Tree)[2], "pPr") = get(P1, "pPr")
    /\ get(items_of(Body(Tree)[2], "content")[1], "rPr") = Dict(<<KV("b", Str("1"))>>)
    /\ get(Body(Tree)[3], "pPr") = get(NExported, "pPr")
    /\ get(items_of(Body(Tree)[3], "content")[1], "rPr") = Dict(<<KV("i", Str("1"))>>)

\* b is a with one block of consecutive items (possibly empty) taken out
BlockRemoved(a, b) ==
    /\ Len(b) <= Len(a)
    /\ \E p \in 0..Len(b) :
          /\ SubSeq(a, 1, p) = SubSeq(b, 1, p)
          /\ SubSeq(a, p + (Len(a) - Len(b)) + 1, Len(a)) = SubSeq(b, p + 1, Len(b))

(* C13: through every operation of a call, every element that was in the   *)
(* tree before the operation and is not deleted by it carries afterwards   *)
(* the identity it had: in document order, the identities of the tree      *)
(* after a delete are those before it less the deleted element's, and the  *)
(* identities before any other operation are all still there, in order,    *)
(* after it.                                                               *)
C13_IdentitiesImmutable ==
    [][InLoop =>
         LET ids == AllIds(Tree)
             ids2 == AllIds(heap'[patched_data])
         IN  IF ValidOp /\ op_type = Str("delete") /\ Found.ok /\ Found.has_parent
             THEN /\ BlockRemoved(ids, ids2)
                  /\ Len(ids) - Len(ids2) = Len(AllIds(Found.found))
             ELSE BlockRemoved(ids2, ids)]_vars

(* -------------------- vocabulary of the export claims ------------------- *)

\* the document is one paragraph whose only child is a run, and the export
\* has produced its blocks
OneRun ==
    /\ epc # "start"
    /\ Len(docx.document) = 1
    /\ Len(get(docx.document[1], "children").v) = 1
    /\ get(get(docx.document[1], "children").v[1], "tag") = Str("r")

TheParagraph == docx.document[1]

TheRun == get(TheParagraph, "children").v[1]

\* the rPr the catalog declares for the style sid
Declared(sid) == get(get(get(docx.styles, "styles"), sid), "rPr")

\* what each of the five sources of the run gives the property key, None
\* where the source does not define it; the paragraph-style chain of
\* Heading1 is Base then Heading1, every other style stands alone
Given(key) ==
    LET pPr == get(TheParagraph, "pPr")
        rPr == get(TheRun, "rPr")
        sid == py_or(get(pPr, "styleId"), get(docx.styles, "defaultParagraphStyleId"))
        lvl == get(get(docx.numbering, "abstractNums").v[1], "levels").v[1]
    IN  [run |-> get(rPr, key),
         char |-> IF has(rPr, "rStyle") THEN get(Declared(get(rPr, "rStyle").v), key)
                  ELSE None,
         pstyle |-> IF sid = Str("Heading1")
                    THEN (IF has(Declared("Heading1"), key)
                          THEN get(Declared("Heading1"), key) ELSE get(Declared("Base"), key))
                    ELSE get(Declared(sid.v), key),
         num |-> IF has(pPr, "numPr") THEN get(get(lvl, "rPr"), key) ELSE None,
         para |-> get(get(pPr, "rPr"), key)]

Precedence == <<"run", "char", "pstyle", "num", "para">>

\* the value of the first source, in the order of precedence, that defines
\* the property, None when no source does
FirstDefined(key) ==
    LET g == Given(key)
        hit == {j \in 1..5 : g[Precedence[j]] # None}
    IN  IF hit = {} THEN None ELSE g[Precedence[Min(hit)]]

\* the resolved bag of the run, as the exported block carries it
Bag == get(get(items_of(data_body[1], "content")[1], "text_full_properties"), "rPr")

PropKeys == {pr.key : pr \in Props}

\* the family a declared rFonts names, theme aliases substituted
Family(rf) ==
    IF has(rf, "ascii") THEN get(rf, "ascii")
    ELSE IF get(rf, "asciiTheme") = Str("+major-latin") THEN get(docx.theme, "majorLatin")
    ELSE get(docx.theme, "minorLatin")

\* the bag shows the property key as a source that gives it val decides it
Shows(key, val) ==
    IF val = None THEN ~has(Bag, key)
    ELSE IF key \in {"bold", "italic", "strike"}
    THEN (IF val = Bool(TRUE) THEN get(Bag, key) = Bool(TRUE) ELSE get(Bag, key) # Bool(TRUE))
    ELSE IF key = "rFonts"
    THEN get(Bag, key) = Dict(<<KV("ascii", Family(val)), KV("hAnsi", Family(val))>>)
    ELSE IF key = "color" /\ upper(val.v) \in Sentinels THEN ~has(Bag, key)
    ELSE get(Bag, key) = val

(* C14: for each formatting property on its own, the bag of a run shows    *)
(* the value of the first source that defines the property in the order    *)
(* run-direct, character style, paragraph style, numbering level,          *)
(* paragraph-direct rPr, and nothing when no source defines it.            *)
C14_FirstDefiningSourceWins ==
    OneRun => \A key \in PropKeys : Shows(key, FirstDefined(key))

(* C15: when a property is defined by the paragraph-style chain and by the *)
(* numbering level only, with different values, the bag of the run shows   *)
(* the numbering level's value.                                            *)
C15_NumberingOverParagraphStyle ==
    OneRun =>
        \A key \in PropKeys :
            LET g == Given(key)
            IN  (/\ g.run = None /\ g.char = None /\ g.para = None
                 /\ g.pstyle # None /\ g.num # None /\ g.pstyle # g.num)
                => Shows(key, g.num)

BoolKeys == {"bold", "italic", "strike"}

(* C16: for bold, italic and strike, when the first source that defines    *)
(* the property sets it to false the bag never has it true, whatever the   *)
(* lower sources say; a source that does not set the property leaves the   *)
(* decision to the next one, so a first defining source that sets it true  *)
(* makes it true in the bag.                                               *)
C16_ExplicitFalseOverrides ==
    OneRun =>
        \A key \in BoolKeys :
            /\ FirstDefined(key) = Bool(FALSE) => get(Bag, key) # Bool(TRUE)
            /\ FirstDefined(key) = Bool(TRUE) => get(Bag, key) = Bool(TRUE)
            /\ FirstDefined(key) = None => ~has(Bag, key)

\* the character style turns bold off, the paragraph style, the numbering
\* level and the paragraph turn it on: the run is not bold
C16_Witness ==
    /\ OneRun
    /\ Given("bold") = [run |-> None, char |-> Bool(FALSE), pstyle |-> Bool(TRUE),
                        num |-> Bool(TRUE), para |-> Bool(TRUE)]
    /\ ~has(Bag, "bold")

(* C17: no default leak. When none of the five sources of a run defines a  *)
(* property the bag of the run is empty, whatever the document defaults    *)
(* and the theme hold, and every property in a bag is defined by at least  *)
(* one of the five sources.                                                *)
C17_NoDefaultLeak ==
    OneRun =>
        /\ (\A key \in PropKeys : FirstDefined(key) = None) => Bag = Dict(<<>>)
        /\ \A e \in 1..Len(Bag.v) :
              Bag.v[e].key \in PropKeys /\ FirstDefined(Bag.v[e].key) # None

\* the catalog's defaults are bold Calibri 11pt in 333333 and the theme has
\* its fonts, no source of the run defines anything: the bag is empty
C17_Witness ==
    /\ OneRun
    /\ get(get(get(docx.styles, "docDefaults"), "rPr"), "bold") = Bool(TRUE)
    /\ get(docx.theme, "minorLatin") = Str("Calibri")
    /\ \A key \in PropKeys : \A s \in Sources : Given(key)[s] = None
    /\ Bag = Dict(<<>>)

\* the bag {bold: true, size: 16pt}
BoldSixteen == Dict(<<KV("bold", Bool(TRUE)), KV("sizeHalfPoints", Integer(32))>>)

\* the run with no direct formatting in the Heading1 paragraph has been
\* exported and its bag has got the name name
HeadingNamed(name) ==
    /\ canon(Bag) = canon(BoldSixteen)
    /\ Len(name_to_key) = 1 => /\ name_to_key[1].name = name
                               /\ get(get(registry, name), "rPr") = Bag
    /\ epc = "annotated"
       => get(items_of(annotated[1], "content")[1], "textPropsRef") = Str(name)

(* C18 as stated: for a run with no direct formatting in a paragraph of    *)
(* style Heading1, where Heading1 is based on Base, Base declares bold and *)
(* Heading1 declares size 16pt, the bag is {bold: true, size: 16pt} and    *)
(* the registry name of the bag is heading_1_16pt_format.                  *)
C18_HeadingName ==
    (docx = HeadingDoc /\ epc # "start") => HeadingNamed("heading_1_16pt_format")

(* C18 amended: for that run the bag is {bold: true, size: 16pt} and the   *)
(* registry name of the bag is heading_1_bold_16pt_format, the emphasis    *)
(* flag of the bag standing between the style tag and the size.            *)
C18_HeadingNameWithBold ==
    (docx = HeadingDoc /\ epc # "start") => HeadingNamed("heading_1_bold_16pt_format")

\* the Heading1 document is exported: its run refers to the name
\* heading_1_bold_16pt_format, which the registry binds to the bag
C18_Witness ==
    /\ docx = HeadingDoc
    /\ epc = "annotated"
    /\ canon(Bag) = canon(BoldSixteen)
    /\ has(registry, "heading_1_bold_16pt_format")
    /\ get(items_of(annotated[1], "content")[1], "textPropsRef")
       = Str("heading_1_bold_16pt_format")

\* the bags of the items of c, and their reference names
BagsOf(c) == [j \in 1..Len(c) |-> canon_props(c[j])]

RefsOf(c) == [j \in 1..Len(c) |-> get(c[j], "textPropsRef")]

\* no two adjacent runs of the sequence c agree on their field in fields
NoEqualNeighbours(c, fields) ==
    \A j \in 1..(Len(c) - 1) :
        (isrun(c[j]) /\ isrun(c[j + 1])) => fields[j] # fields[j + 1]

(* C19: run consolidation is idempotent and closed. Consolidating an       *)
(* already consolidated sequence of runs and hyperlinks changes nothing,   *)
(* before the registry pass and after it, and in a consolidated sequence   *)
(* no two adjacent runs have the same formatting: not the same bag of      *)
(* formatting and metadata before the registry pass, not the same          *)
(* reference name after it.                                                *)
C19_ConsolidationClosed ==
    /\ \A j \in 1..Len(data_body) :
          LET c == items_of(data_body[j], "content")
          IN  /\ consolidate_runs(c) = c
              /\ NoEqualNeighbours(c, BagsOf(c))
              /\ \A m \in 1..Len(c) :
                    LET h == items_of(c[m], "runs")
                    IN  consolidate_runs(h) = h /\ NoEqualNeighbours(h, BagsOf(h))
    /\ \A j \in 1..Len(annotated) :
          LET c == items_of(annotated[j], "content")
          IN  /\ _merge_runs_sequence(c) = c
              /\ NoEqualNeighbours(c, RefsOf(c))
              /\ \A m \in 1..Len(c) :
                    LET h == items_of(c[m], "runs")
                    IN  /\ _merge_runs_sequence(h) = h
                        /\ NoEqualNeighbours(h, RefsOf(h))

\* a paragraph of a bold run of text, a bold run of chunks and a hyperlink
\* of two bold runs: the two runs have become one run of chunks, the
\* hyperlink has one run, and all of them refer to the same name
C19_Witness ==
    /\ epc = "annotated"
    /\ Len(docx.document) = 1 /\ get(docx.document[1], "tag") = Str("p")
    /\ get(docx.document[1], "children").v
       = <<R(Dict(<<Bold>>), <<Text("a")>>),
           R(Dict(<<Bold>>), <<Text("b"), Dict(<<KV("type", Str("tab"))>>)>>),
           Dict(<<KV("tag", Str("hyperlink")), KV("id", Str("rId1")),
                  KV("runs", List(<<R(Dict(<<Bold>>), <<Text("e")>>),
                                    R(Dict(<<Bold>>), <<Dict(<<KV("type", Str("tab"))>>)>>)>>))>>)>>
    /\ LET c == items_of(annotated[1], "content")
       IN  /\ Len(c) = 2
           /\ get(c[1], "chunks")
              = List(<<Text("a"), Text("b"), Dict(<<KV("type", Str("tab"))>>)>>)
           /\ Len(items_of(c[2], "runs")) = 1
           /\ get(items_of(c[2], "runs")[1], "textPropsRef") = get(c[1], "textPropsRef")

\* the names bound so far
Names == {name_to_key[j].name : j \in 1..Len(name_to_key)}

(* C20: the registry is a bijection between names and canonical keys. At   *)
(* every point of the name assignment each key handled so far has the one  *)
(* name it was given, no name is bound to two keys and no key has two      *)
(* names, also when several keys generate the same base name; the registry *)
(* holds under each name the bag of the name's key; and when the tree is   *)
(* annotated every collected key has its name.                             *)
C20_RegistryBijection ==
    /\ Len(name_to_key) <= Len(key_to_props)
    /\ \A j \in 1..Len(name_to_key) : name_to_key[j].key = key_to_props[j].key
    /\ \A i, j \in 1..Len(name_to_key) :
          i # j => /\ name_to_key[i].name # name_to_key[j].name
                   /\ name_to_key[i].key # name_to_key[j].key
    /\ \A i, j \in 1..Len(key_to_props) : i # j => key_to_props[i].key # key_to_props[j].key
    /\ {registry.v[j].key : j \in 1..Len(registry.v)} = Names
    /\ Len(registry.v) = Len(name_to_key)
    /\ \A j \in 1..Len(name_to_key) :
          _canon_props(get(registry, name_to_key[j].name)) = name_to_key[j].key
    /\ epc = "annotated" => Len(name_to_key) = Len(key_to_props)

\* three different bags generate the base name normal_bold_format: the
\* first has it, the others have it with the suffixes _2 and _3
C20_Witness ==
    /\ epc = "annotated"
    /\ Len(key_to_props) = 3
    /\ \A j \in 1..3 : _gen_semantic_name(key_to_props[j].props) = "normal_bold_format"
    /\ [j \in 1..3 |-> name_to_key[j].name]
       = <<"normal_bold_format", "normal_bold_format_2", "normal_bold_format_3">>

\* the paragraphs and tables of blocks in document order, at any depth of
\* nesting, a table standing before the blocks of its cells
RECURSIVE Preorder(_)
Preorder(blocks) ==
    IF blocks = <<>> THEN <<>>
    ELSE LET blk == Head(blocks)
             rows == items_of(blk, "rows")
             cells == IF get(blk, "type") = Str("table")
                      THEN [r \in 1..Len(rows) |-> items_of(rows[r], "cells")] ELSE <<>>
             RECURSIVE InCells(_)
             InCells(cs) == IF cs = <<>> THEN <<>>
                            ELSE Preorder(items_of(Head(cs), "content")) \o InCells(Tail(cs))
             RECURSIVE InRows(_)
             InRows(rs) == IF rs = <<>> THEN <<>> ELSE InCells(Head(rs)) \o InRows(Tail(rs))
         IN  <<blk>> \o InRows(cells) \o Preorder(Tail(blocks))

OfType(blocks, type) == SelectSeq(Preorder(blocks), LAMBDA b : get(b, "type") = Str(type))

(* C21: in the exported tree the k-th paragraph in document order, counted *)
(* through the cells of tables at any depth, has the identity p-k and the  *)
(* k-th table has t-k, a table counting before the blocks in its cells; no *)
(* block is lost or added by the assignment.                               *)
C21_PreorderIdentities ==
    epc = "done" =>
        /\ Len(Preorder(final_body)) = Len(Preorder(annotated))
        /\ \A k \in 1..Len(OfType(final_body, "paragraph")) :
              get(OfType(final_body, "paragraph")[k], "id") = Str("p-" \o ToString(k))
        /\ \A k \in 1..Len(OfType(final_body, "table")) :
              get(OfType(final_body, "table")[k], "id") = Str("t-" \o ToString(k))

\* a table whose first cell holds a paragraph, a table of three paragraphs
\* and a paragraph, and whose second row holds a paragraph, followed by a
\* paragraph: the tables are t-1 and t-2, the last paragraph is p-7
C21_Witness ==
    /\ epc = "done"
    /\ docx.document = <<Nested, Pa>>
    /\ get(final_body[1], "id") = Str("t-1")
    /\ get(final_body[2], "id") = Str("p-7")
    /\ [k \in 1..2 |-> get(OfType(final_body, "table")[k], "id")] = <<Str("t-1"), Str("t-2")>>
    /\ Len(OfType(final_body, "paragraph")) = 7
(* ======================================================================= *)
(* Server: mcp_server.py, the tools that patch a document and save the     *)
(* result as a new version beside it.  Paths are strings; files is the     *)
(* listing of the one directory Dir the documents are in.                  *)
(* ======================================================================= *)

(* ------------------------------- paths --------------------------------- *)

\* s.endswith(p)
endswith(s, p) == Len(s) >= Len(p) /\ SubSeq(s, Len(s) - Len(p) + 1, Len(s)) = p

Max(S) == CHOOSE m \in S : \A n \in S : m >= n

\* the positions of the character c in s
positions(s, c) == {j \in 1..Len(s) : SubSeq(s, j, j) = c}

\* os.path.dirname
dirname(path) ==
    LET at == positions(path, "/")
    IN  IF at = {} THEN "" ELSE IF Max(at) = 1 THEN "/" ELSE SubSeq(path, 1, Max(at) - 1)

\* os.path.basename
basename(path) ==
    LET at == positions(path, "/")
    IN  IF at = {} THEN path ELSE SubSeq(path, Max(at) + 1, Len(path))

\* os.path.splitext: the extension starts at the last dot of the last
\* component, unless only dots stand before it in that component
splitext(path) ==
    LET sep == IF positions(path, "/") = {} THEN 0 ELSE Max(positions(path, "/"))
        dots == {j \in positions(path, ".") : j > sep}
    IN  IF dots # {} /\ \E j \in (sep + 1)..(Max(dots) - 1) : SubSeq(path, j, j) # "."
        THEN [root |-> SubSeq(path, 1, Max(dots) - 1),
              ext |-> SubSeq(path, Max(dots), Len(path))]
        ELSE [root |-> path, ext |-> ""]

\* s.isdigit()
isdigit(s) == Len(s) > 0 /\ \A j \in 1..Len(s) : SubSeq(s, j, j) \in Digits

\* int(s) for a string of digits
RECURSIVE int(_)
int(s) ==
    IF Len(s) = 0 THEN 0
    ELSE LET d == SubSeq(s, Len(s), Len(s))
             digit == CHOOSE n \in 0..9 : ToString(n) = d
         IN  10 * int(SubSeq(s, 1, Len(s) - 1)) + digit

\* re.sub(r"\.v\d+$", "", base_noext)
_strip_version_suffix(base_noext) ==
    LET other == {j \in 1..Len(base_noext) : SubSeq(base_noext, j, j) \notin Digits}
        q == IF other = {} THEN 0 ELSE Max(other)
    IN  IF q < Len(base_noext) /\ q >= 2 /\ SubSeq(base_noext, q - 1, q) = ".v"
        THEN SubSeq(base_noext, 1, q - 2)
        ELSE base_noext

\* the directory of the documents, the only one that exists
Dir == "/d"

\* the version number a file of the listing counts for, for the base name
\* base_name: the set is empty when the file does not count
version_of(file, base_name) ==
    LET parts == split(SubSeq(file, Len(base_name) + 1, Len(file)), ".")
    IN  IF /\ startswith(file, base_name \o ".v") /\ ~endswith(file, ".tmp")
           /\ Len(parts) >= 2 /\ startswith(parts[2], "v")
           /\ isdigit(SubSeq(parts[2], 2, Len(parts[2])))
        THEN {int(SubSeq(parts[2], 2, Len(parts[2])))}
        ELSE {}

_get_next_version_number(base_path, listing) ==
    LET existing_versions == UNION {version_of(file, basename(base_path)) : file \in listing}
    IN  IF dirname(base_path) # Dir THEN 1
        ELSE IF existing_versions = {} THEN 1 ELSE Max(existing_versions) + 1

\* _derive_versioned_path with the version given
_derive_versioned_path(base_path, extension, version) ==
    _strip_version_suffix(splitext(base_path).root) \o ".v" \o ToString(version) \o extension

\* the files get_document_as_json leaves beside the document: the export
\* and the runs-only export build_docx_json writes first
export_files(docx_path) ==
    {basename(splitext(docx_path).root) \o ".export.json",
     basename(splitext(docx_path).root) \o ".export.runs_only.json"}

\* _apply_patch_and_save up to the patch: the version and the output path
output_of(docx_path, output_docx_path, listing) ==
    LET base_noext == splitext(docx_path).root
        ext == splitext(docx_path).ext
        base_root == _strip_version_suffix(base_noext)
        version == _get_next_version_number(base_root, listing)
    IN  [version |-> version,
         output_docx |-> IF output_docx_path # "" THEN output_docx_path
                         ELSE _derive_versioned_path(base_root, ext, version)]

(* ------------------------- the tool calls ------------------------------ *)

\* Every client of the stdio transport starts a server process of its own
\* (main, server.run()): Callers are the processes that work on the one
\* directory, each handling one tool call at a time.  Nothing in
\* mcp_server.py takes a lock or another kind of exclusion on a path.
Callers == {1, 2}

\* how many tool calls one caller makes
MaxCalls == 2

\* the directory before the first call
Listings ==
    { {"doc.docx"},
      {"doc.v3.docx", "doc.v9.docx.tmp"},
      {"report.final.docx"} }

\* the explicit output paths a caller may give ("" is None)
Outputs == {"", "/d/out.docx"}

Idle == [pc |-> "idle", docx_path |-> "", output_docx_path |-> "",
         version |-> 0, output_docx |-> "", existed |-> FALSE]

InitServer ==
    /\ NoPatch /\ NoExport
    /\ files \in Listings
    /\ calls = [c \in Callers |-> Idle]
    /\ made = [c \in Callers |-> <<>>]
    /\ request = <<>>

\* a tool that patches (edit_document, add_elements, delete_elements, ...)
\* is called: get_document_as_json refuses what is not a .docx file, and
\* leaves the exports beside the document
ToolCall(c) ==
    /\ calls[c].pc = "idle" /\ Len(made[c]) < MaxCalls
    /\ \E file \in files : \E out \in Outputs :
        /\ endswith(file, ".docx")
        /\ files' = files \union export_files(Dir \o "/" \o file)
        /\ calls' = [calls EXCEPT ![c] = [Idle EXCEPT !.pc = "read",
                                                      !.docx_path = Dir \o "/" \o file,
                                                      !.output_docx_path = out]]
    /\ UNCHANGED <<pvars, evars, made, request>>

\* _apply_patch_and_save, lines 622-629: os.listdir and the output path
NextVersion(c) ==
    /\ calls[c].pc = "read"
    /\ LET o == output_of(calls[c].docx_path, calls[c].output_docx_path, files)
       IN  calls' = [calls EXCEPT ![c].pc = "versioned",
                                  ![c].version = o.version,
                                  ![c].output_docx = o.output_docx]
    /\ UNCHANGED <<pvars, evars, files, made, request>>

\* lines 632-644: the patch is applied and the document rebuilt in memory
ApplyPatch(c) ==
    /\ calls[c].pc = "versioned"
    /\ calls' = [calls EXCEPT ![c].pc = "patched"]
    /\ UNCHANGED <<pvars, evars, files, made, request>>

\* line 645, document.save(output_docx), and the result of the call
Save(c) ==
    /\ calls[c].pc = "patched"
    /\ files' = files \union {basename(calls[c].output_docx)}
    /\ made' = [made EXCEPT ![c] = Append(@, [calls[c] EXCEPT
                    !.pc = "saved", !.existed = basename(calls[c].output_docx) \in files])]
    /\ calls' = [calls EXCEPT ![c] = Idle]
    /\ UNCHANGED <<pvars, evars, request>>

NextServer ==
    \/ \E c \in Callers : ToolCall(c)
    \/ \E c \in Callers : NextVersion(c)
    \/ \E c \in Callers : ApplyPatch(c)
    \/ \E c \in Callers : Save(c)

SpecServer == InitServer /\ [][NextServer]_vars

(* ----------------------------- claims: server -------------------------- *)

\* caller c is between computing its version number and writing its file
InFlight(c) == calls[c].pc \in {"versioned", "patched"}

(* C22: at most one patch-and-write sequence is in flight per document     *)
(* path: two callers are never both between the computation of the next    *)
(* version number and the write of the output file for the same document   *)
(* path.                                                                   *)
C22_OneInFlight ==
    \A c1, c2 \in Callers :
        c1 # c2 /\ InFlight(c1) /\ InFlight(c2)
            => calls[c1].docx_path # calls[c2].docx_path

\* no other caller has called a tool or is calling one
Alone(c) == \A d \in Callers \ {c} : calls[d] = Idle /\ made[d] = <<>>

\* the document path without its extension and without a trailing .v<digits>
BaseOf(docx_path) == _strip_version_suffix(splitext(docx_path).root)

\* the version numbers of the files <base>.v<N><ext> of a listing
VersionsOf(base, ext, listing) ==
    {N \in 1..20 : basename(base) \o ".v" \o ToString(N) \o ext \in listing}

(* C29: a call without an explicit output path, made by a caller whose     *)
(* calls are sequential, writes <base>.v<N><ext>, with <base> the document *)
(* path without extension and without a trailing .v<digits> and N one more *)
(* than the highest version among the existing files of that base (1 when  *)
(* there is none); N is greater than the version of every earlier call on  *)
(* the same document, and the path written did not exist.                  *)
C29_VersionedOutput ==
    [][\A c \in Callers :
        Alone(c) /\ calls[c].pc = "patched" /\ calls[c].output_docx_path = ""
                 /\ made'[c] # made[c]
        => LET base == BaseOf(calls[c].docx_path)
               ext == splitext(calls[c].docx_path).ext
               seen == VersionsOf(base, ext, files)
               N == IF seen = {} THEN 1 ELSE Max(seen) + 1
           IN  /\ calls[c].version = N
               /\ calls[c].output_docx = base \o ".v" \o ToString(N) \o ext
               /\ basename(calls[c].output_docx) \notin files
               /\ \A i \in 1..Len(made[c]) :
                    /\ BaseOf(made[c][i].docx_path) = base
                    /\ made[c][i].output_docx_path = ""
                    => made[c][i].version < N]_vars

\* the element an inserted node takes its formatting from: the element its
\* formatFrom names when there is one, otherwise the anchor of the insertion
FillSource(node) ==
    LET named == find_element_and_parent(Tree, get(node, "formatFrom"), <<>>)
    IN  IF isdict(node) /\ isstr(get(node, "formatFrom")) /\ named.ok THEN named.found
        ELSE IF Found.ok THEN Found.found ELSE None

IsParagraph(x) == isdict(x) /\ get(x, "type") = Str("paragraph")

(* C23: an inserted paragraph that declares no pPr has, after the          *)
(* insertion, the pPr of the element its formatFrom names when that        *)
(* element is in the tree, otherwise the pPr of the anchor; its runs that  *)
(* declare no rPr have the rPr of the first formatted run of that same     *)
(* element.  This holds where the reference was found and where the nodes  *)
(* were appended at the end of the body.                                   *)
C23_FillFromFormatFromElseAnchor ==
    [][InsertStep =>
         \A j \in 1..Len(Placed) :
            LET given == Nodes[j]
                got == Placed[j]
                src == FillSource(given)
                c == items_of(given, "content")
                c2 == items_of(got, "content")
            IN  IsParagraph(given) /\ IsParagraph(src) =>
                  /\ ~truthy(get(given, "pPr")) /\ truthy(get(src, "pPr"))
                        => get(got, "pPr") = get(src, "pPr")
                  /\ \A m \in 1..Len(c) :
                        /\ isrun(c[m]) /\ ~truthy(get(c[m], "rPr"))
                        /\ truthy(_first_run_rpr(src))
                        => get(c2[m], "rPr") = _first_run_rpr(src)]_vars

(* C24: within one apply_patch call the known identities never shrink and  *)
(* no counter of a prefix ever decreases or is forgotten; the known        *)
(* identities hold every identity the tree had at the start, whatever has  *)
(* been deleted since, and the identity an insert step gives a node is     *)
(* none of the identities known before the step: none the tree started     *)
(* with, and none given to a node inserted earlier.                        *)
C24_KnownIdentitiesOnlyGrow ==
    [][pc = "loop" =>
         /\ existing_ids \subseteq existing_ids'
         /\ _collect_ids(Input) \subseteq existing_ids
         /\ \A p \in DOMAIN id_counters :
               p \in DOMAIN id_counters' /\ id_counters'[p] >= id_counters[p]
         /\ InsertStep =>
               \A j \in 1..Len(Placed) :
                  isdict(Placed[j]) =>
                     /\ get(Placed[j], "id").v \notin existing_ids
                     /\ get(Placed[j], "id").v \in existing_ids'
                     /\ \A j2 \in 1..(j - 1) :
                           get(Placed[j2], "id") # get(Placed[j], "id")]_vars

\* i-p-1, in the tree at the start, was deleted and two paragraphs were
\* inserted afterwards: they are i-p-2 and i-p-3, i-p-1 is still known and
\* the counter of the prefix stands at 4
C24_Witness ==
    /\ pc = "returned"
    /\ patch = <<OpDelete("i-p-1"), OpInsert("insertAfter", "p-1", List(<<NPlain, NExported>>))>>
    /\ "i-p-1" \in _collect_ids(Input) /\ "i-p-1" \notin _collect_ids(Tree)
    /\ "i-p-1" \in existing_ids
    /\ get(Body(Tree)[2], "id") = Str("i-p-2") /\ get(Body(Tree)[3], "id") = Str("i-p-3")
    /\ id_counters["i-p-"] = 4

\* the operation at opi names an element that is in the tree, but not as
\* an item of a list
Detached == ValidOp /\ Found.ok /\ ~Found.has_parent

(* C27: when the element an operation names is in the tree but is not      *)
(* directly an item of a list, delete, insertAfter and insertBefore leave  *)
(* the tree as it was (nothing is appended at the end of the body), and    *)
(* replace with a path and a value still sets the field on the element.    *)
C27_DetachedElement ==
    [][Detached =>
         /\ pc' = "loop"
         /\ op_type \in {Str("delete"), Str("insertAfter"), Str("insertBefore")}
               => heap'[patched_data] = Tree
         /\ (/\ op_type = Str("replace")
             /\ has(patch[opi], "path") /\ has(patch[opi], "value")
             /\ ~BlockedPath(Found.found, split(get(patch[opi], "path").v, ".")))
               => /\ ValueAt(GetAt(heap'[patched_data], Found.at),
                             split(get(patch[opi], "path").v, ".")) = get(patch[opi], "value")
                  /\ Body(heap'[patched_data]) = Body(Tree)]_vars

\* on the header paragraph h-1, a value of the document's dict, a replace
\* has set pPr.jc and an insertAfter has then left the tree as it was
C27_Witness ==
    /\ pc = "returned"
    /\ patch = <<OpReplace("h-1", "pPr.jc", Str("left")),
                 OpInsert("insertAfter", "h-1", List(<<NPlain>>))>>
    /\ get(get(get(Tree, "header"), "pPr"), "jc") = Str("left")
    /\ Body(Tree) = Body(Input)
    /\ existing_ids = _collect_ids(Input)

\* the style the catalog says sid is based on, "" for none
BasedOn(sid) == get(get(get(docx.styles, "styles"), sid), "basedOn").v

Known(sid) == has(get(docx.styles, "styles"), sid)

\* c is the chain of sid: it starts at sid when the catalog has it, goes
\* from each style to the one it is based on, and stops before a style the
\* catalog does not have and before a style it already holds
IsChainOf(c, sid) ==
    /\ IF Known(sid) THEN Len(c) > 0 /\ c[1] = sid ELSE c = <<>>
    /\ \A j \in 1..(Len(c) - 1) : c[j + 1] = BasedOn(c[j])
    /\ Len(c) > 0 =>
          LET next == BasedOn(c[Len(c)])
          IN  next = "" \/ ~Known(next) \/ \E j \in 1..Len(c) : c[j] = next

\* the package is one of the catalogs of chains
ChainCase == Known("A") /\ Known("C")

(* C25: the resolution of a style chain ends for every catalog, a cycle of *)
(* basedOn links or a link to a style the catalog lacks included: the      *)
(* chain holds each style at most once, and each property of the result is *)
(* the value of the style nearest to the requested one that declares it,   *)
(* so a derived style overrides its bases.  The first run of the paragraph *)
(* shows the size so resolved.                                             *)
C25_StyleChainEnds ==
    ChainCase =>
      \A sid \in ChainIds \cup {"Gone"} :
         LET chain == style_chain(docx.styles, Str(sid), {})
             rPr == resolve_style_chain(docx.styles, Str(sid)).rPr
         IN  /\ NoDup(chain) /\ Len(chain) <= Cardinality(ChainIds)
             /\ IsChainOf(chain, sid)
             /\ \A key \in {"sizeHalfPoints", "bold", "italic"} :
                   LET hits == {j \in 1..Len(chain) : has(Declared(chain[j]), key)}
                   IN  IF hits = {} THEN ~has(rPr, key)
                       ELSE get(rPr, key) = get(Declared(chain[Min(hits)]), key)
             /\ (epc # "start" /\ get(get(TheParagraph, "pPr"), "styleId") = Str(sid))
                   => get(Bag, "sizeHalfPoints") = get(rPr, "sizeHalfPoints")

\* A is based on B, B on C and C on A again; the paragraph has style A, and
\* its first run is 10pt (A), bold (B over C) and italic (C)
C25_Witness ==
    /\ ChainCase /\ epc = "done"
    /\ BasedOn("A") = "B" /\ BasedOn("B") = "C" /\ BasedOn("C") = "A"
    /\ get(get(TheParagraph, "pPr"), "styleId") = Str("A")
    /\ style_chain(docx.styles, Str("A"), {}) = <<"A", "B", "C">>
    /\ get(Bag, "sizeHalfPoints") = Integer(20)
    /\ get(Bag, "bold") = Bool(TRUE) /\ get(Bag, "italic") = Bool(TRUE)

IsSentinel(c) == isstr(c) /\ upper(c.v) \in Sentinels

(* C26: the bag of a run never holds a sentinel color (000000, auto,       *)
(* windowtext); and when the first source, in precedence order, that       *)
(* defines color gives a sentinel, the bag has no color, whatever the      *)
(* sources after it define.                                                *)
C26_SentinelColorHides ==
    OneRun =>
      /\ ~IsSentinel(get(Bag, "color"))
      /\ IsSentinel(FirstDefined("color")) => ~has(Bag, "color")

\* the content items of the paragraphs of blocks, at any depth of tables
ItemsOf(blocks) ==
    UNION {{items_of(b, "content")[j] : j \in 1..Len(items_of(b, "content"))} :
             b \in {OfType(blocks, "paragraph")[k] : k \in 1..Len(OfType(blocks, "paragraph"))}}

\* the runs that stand in paragraphs, and the runs that stand in hyperlinks
PlainRuns(blocks) == {it \in ItemsOf(blocks) : isrun(it)}

LinkRuns(blocks) ==
    UNION {{items_of(h, "runs")[j] : j \in 1..Len(items_of(h, "runs"))} :
             h \in {it \in ItemsOf(blocks) : isdict(it) /\ get(it, "type") = Str("hyperlink")}}

AllRuns(blocks) == PlainRuns(blocks) \cup LinkRuns(blocks)

RegistryKeys == {registry.v[j].key : j \in 1..Len(registry.v)}

(* C30: in the tree build_docx_json produces every run, in a paragraph or   *)
(* in a hyperlink, at any depth of tables, has a textPropsRef that is a key *)
(* of the textProperties registry and carries no text_full_properties;     *)
(* and every entry of the registry is the textPropsRef of some run.        *)
C30_ReferencesClosed ==
    epc = "done" =>
        /\ \A r \in AllRuns(final_body) :
              /\ isstr(get(r, "textPropsRef")) /\ get(r, "textPropsRef").v \in RegistryKeys
              /\ ~has(r, "text_full_properties")
        /\ \A name \in RegistryKeys :
              \E r \in AllRuns(final_body) : get(r, "textPropsRef") = Str(name)

\* a table with a table in one of its cells, then a paragraph: two bags are
\* registered, and the runs of the hyperlinks in the cells refer to one of
\* them as the runs of the paragraphs do
C30_Witness ==
    /\ epc = "done"
    /\ docx.document = <<Nested, Pa>>
    /\ Cardinality(RegistryKeys) = 2
    /\ LinkRuns(final_body) # {} /\ PlainRuns(final_body) # {}
    /\ {get(r, "textPropsRef").v : r \in LinkRuns(final_body)} \subseteq RegistryKeys
    /\ {get(r, "textPropsRef").v : r \in PlainRuns(final_body)} = RegistryKeys

(* ------------------------- edit_document ------------------------------- *)

\* a run takes the reference ref unless it has one of its own
with_ref(item, ref) ==
    IF isrun(item) /\ ~has(item, "textPropsRef") THEN set(item, "textPropsRef", ref) ELSE item

_prepare_element_with_formatting(element, text_properties_ref, available_properties) ==
    IF isstr(element)
    THEN LET props_ref ==
                 IF truthy(text_properties_ref) THEN text_properties_ref
                 ELSE IF truthy(available_properties)
                         /\ has(available_properties, "default_text_format")
                 THEN Str("default_text_format")
                 ELSE IF truthy(available_properties)
                 THEN Str(available_properties.v[1].key)
                 ELSE None
             run_content == Dict(<<KV("type", Str("run")), KV("text", element)>>)
         IN  Dict(<<KV("type", Str("paragraph")),
                    KV("content", List(<<IF truthy(props_ref)
                                         THEN set(run_content, "textPropsRef", props_ref)
                                         ELSE run_content>>))>>)
    ELSE IF isdict(element) /\ get(element, "type") = Str("paragraph")
            /\ truthy(text_properties_ref) /\ has(element, "content")
    THEN LET c == get(element, "content").v
         IN  set(element, "content",
                 List([j \in 1..Len(c) |-> with_ref(c[j], text_properties_ref)]))
    ELSE element

\* an optional argument of the tool as a sequence: None is no items
arg(req, name) == IF truthy(get(req, name)) THEN get(req, name).v ELSE <<>>

\* lines 442-447: one delete operation for each id of deletions
delete_ops(deletions) ==
    [j \in 1..Len(deletions) |-> Dict(<<KV("op", Str("delete")), KV("id", deletions[j])>>)]

\* lines 450-472: one replace operation for each edit
replace_op(edit) ==
    LET new_value == get(edit, "new_value")
        text_props_ref == get(edit, "text_properties_ref")
    IN  Dict(<<KV("op", Str("replace")), KV("id", get(edit, "element_id")),
               KV("path", get(edit, "property_path")),
               KV("value", IF get(edit, "property_path") = Str("content")
                              /\ truthy(text_props_ref) /\ islist(new_value)
                           THEN List([j \in 1..Len(new_value.v) |->
                                         with_ref(new_value.v[j], text_props_ref)])
                           ELSE new_value)>>)

replace_ops(edits) == [j \in 1..Len(edits) |-> replace_op(edits[j])]

\* an addition asks for a place beside an element and names none
lacks_reference(addition) ==
    get(addition, "position") # Str("end") /\ ~truthy(get(addition, "reference_id"))

\* the order of the operations: deletions, edits, then additions
in_order(deletes, edits, additions) == deletes \o edits \o additions

\* lines 475-507: one insert operation for each addition
insert_op(addition, available_properties) ==
    LET elements == IF islist(get(addition, "elements")) THEN get(addition, "elements").v
                    ELSE <<get(addition, "elements")>>
        prepared_elements ==
            List([j \in 1..Len(elements) |->
                     _prepare_element_with_formatting(elements[j],
                                                      get(addition, "text_properties_ref"),
                                                      available_properties)])
    IN  IF get(addition, "position") = Str("end")
        THEN OpInsert("insertAfter", "_APPEND_AT_END_DUMMY_ID_", prepared_elements)
        ELSE Dict(<<KV("op", IF get(addition, "position") = Str("after")
                             THEN Str("insertAfter") ELSE Str("insertBefore")),
                    KV("id", get(addition, "reference_id")),
                    KV("nodes", prepared_elements)>>)

insert_ops(additions, available_properties) ==
    [j \in 1..Len(additions) |-> insert_op(additions[j], available_properties)]

\* edit_document up to the patch: the error it returns instead, if any
edit_document(src_json, req) ==
    LET edits == arg(req, "edits")
        additions == arg(req, "additions")
        deletions == arg(req, "deletions")
    IN  IF Len(edits) + Len(additions) + Len(deletions) = 0
           \/ \E j \in 1..Len(additions) : lacks_reference(additions[j])
        THEN [error |-> TRUE, ops |-> <<>>]
        ELSE [error |-> FALSE,
              ops |-> in_order(delete_ops(deletions), replace_ops(edits),
                               insert_ops(additions, py_or(get(src_json, "textProperties"),
                                                           Dict(<<>>))))]

(* --------------------------- edit inputs ------------------------------- *)

\* a document as get_document_as_json returns it
Export(blocks) ==
    Dict(<<KV("source_file", Str("/d/doc.docx")),
           KV("textProperties", Dict(<<KV("bold_format", Dict(<<KV("b", Str("1"))>>))>>)),
           KV("body", List(blocks))>>)

EditTrees == {Export(<<P1, P2, P3>>), Export(<<P1, Table("t-1", <<P2>>), P3>>)}

Edit(id, property_path, new_value, text_properties_ref) ==
    Dict(<<KV("element_id", Str(id)), KV("property_path", Str(property_path)),
           KV("new_value", new_value), KV("text_properties_ref", text_properties_ref)>>)

Addition(position, reference_id, elements, text_properties_ref) ==
    Dict(<<KV("position", Str(position)), KV("reference_id", reference_id),
           KV("elements", elements), KV("text_properties_ref", text_properties_ref)>>)

\* how many edits one call carries
MaxEdits == 2

DeletionLists == {None, List(<<Str("p-2")>>), List(<<Str("p-9"), Str("p-2")>>), List(<<Str("")>>)}

Edits ==
    { Edit("p-2", "content", List(<<Run("new"), RunF("kept", Dict(<<KV("i", Str("1"))>>))>>),
           Str("bold_format")),
      Edit("p-2", "pPr.jc", Str("right"), None),
      Edit("p-1", "pPr.jc", Str("left"), None),
      Edit("p-3", "id", Str("p-2"), None) }

Additions ==
    { Addition("after", Str("p-2"), Str("text"), None),
      Addition("before", Str("p-1"), List(<<NPlain, Str("more")>>), Str("bold_format")),
      Addition("end", None, List(<<NExported>>), None),
      Addition("before", None, List(<<NPlain>>), None) }

Request(deletions, edits, additions) ==
    Dict(<<KV("edits", edits), KV("additions", additions), KV("deletions", deletions)>>)

InitEdit ==
    /\ NoExport /\ NoCalls
    /\ heap \in {<<t>> : t \in EditTrees}
    /\ data = 1
    /\ patched_data = 0
    /\ patch = <<>>
    /\ existing_ids = {}
    /\ id_counters = [p \in {} |-> 1]
    /\ opi = 0
    /\ pc = "asked"
    /\ \E deletions \in DeletionLists :
       \E n \in 0..MaxEdits : \E edits \in [1..n -> Edits] :
       \E additions \in {None} \cup {List(<<a>>) : a \in Additions} :
          request = Request(deletions, IF n = 0 THEN None ELSE List(edits), additions)

\* lines 431-512: the operations are built and handed to _apply_patch_and_save
EditDocument ==
    /\ pc = "asked"
    /\ ~edit_document(heap[data], request).error
    /\ patch' = edit_document(heap[data], request).ops
    /\ pc' = "ready"
    /\ UNCHANGED <<heap, data, patched_data, existing_ids, id_counters, opi, evars, svars>>

\* lines 431-432 and 500-501: the call returns an error and patches nothing
EditRefused ==
    /\ pc = "asked"
    /\ edit_document(heap[data], request).error
    /\ pc' = "refused"
    /\ UNCHANGED <<heap, data, patched_data, patch, existing_ids, id_counters, opi, evars, svars>>

NextEdit ==
    \/ EditDocument
    \/ EditRefused
    \/ Call
    \/ SkipInvalid
    \/ Fallback
    \/ SkipNotFound
    \/ Replace
    \/ Delete
    \/ InsertAfter
    \/ InsertBefore
    \/ Return

SpecEdit == InitEdit /\ [][NextEdit]_vars

(* ------------------------- claims: edit_document ----------------------- *)

\* the ids the caller listed in deletions
Deleted == {arg(request, "deletions")[j] : j \in 1..Len(arg(request, "deletions"))}

\* deletions come first, edits second, additions last
Rank(op) ==
    IF get(op, "op") = Str("delete") THEN 1
    ELSE IF get(op, "op") = Str("replace") THEN 2 ELSE 3

(* C28: edit_document builds one patch, with an operation for each         *)
(* deletion, edit and addition of the call, in which every deletion stands *)
(* before every edit and every edit before every addition; so the          *)
(* operation of an edit whose element id is listed in deletions leaves the *)
(* tree as it is, and the nodes of an addition whose reference id is       *)
(* listed in deletions are appended at the end of the body.                *)
C28_DeletionsEditsAdditions ==
    [][/\ (pc = "asked" /\ pc' = "ready") =>
            /\ Len(patch') = Len(arg(request, "deletions")) + Len(arg(request, "edits"))
                             + Len(arg(request, "additions"))
            /\ \A i, j \in 1..Len(patch') : i < j => Rank(patch'[i]) <= Rank(patch'[j])
       /\ (ValidOp /\ op_type = Str("replace") /\ element_id \in Deleted)
            => heap'[patched_data] = Tree
       /\ (ValidOp /\ IsInsert /\ element_id \in Deleted)
            => LET b == Body(Tree)
                   b2 == Body(heap'[patched_data])
               IN  /\ Len(b2) = Len(b) + Len(Nodes)
                   /\ SubSeq(b2, 1, Len(b)) = b]_vars

====
